---- MODULE Spec2Model ----
(***************************************************************************)
(* RecordMuse: the conversion, filtering and analysis scripts, as state    *)
(* machines.  Every script function is one action: it draws its arguments  *)
(* from bounded sets, runs the whole function and leaves the arguments,    *)
(* the returned value or raised exception, and the files it wrote in the   *)
(* variables.  The recorder, record.py, is threads: there every action is  *)
(* one step of one thread, and the same variables hold the threads'        *)
(* positions, the objects they share and the file being written.           *)
(*                                                                         *)
(* Numbers.  A real number (a Python/numpy float) is an exact rational     *)
(* <<n, d>> in lowest terms with d > 0; floating-point rounding is not     *)
(* modelled.  A missing value (NaN, an empty CSV cell) is the empty tuple.  *)
(* A text is a tuple of one-character strings, compared as Python compares  *)
(* str (by code point).                                                    *)
(***************************************************************************)
EXTENDS Integers, Sequences, FiniteSets, TLC

VARIABLES
    mm_csv,       \* the input file on disk (a dataframe): the Mind Monitor
                  \* export for convert.py, the EEG file for filter.py
    mm_pc,        \* "idle", or the function that ran
    mm_args,      \* the other arguments of the call
    mm_ret,       \* the value returned, or <<>> when it raised
    mm_exc,       \* the exception raised (type and message), or NoExc
    mm_files      \* file name -> content written by the call

vars == <<mm_csv, mm_pc, mm_args, mm_ret, mm_exc, mm_files>>

(***************************************************************************)
(* Bounds of the model.                                                    *)
(***************************************************************************)
MaxRows == 3

(***************************************************************************)
(* Exact arithmetic.                                                       *)
(***************************************************************************)
Abs(i) == IF i < 0 THEN -i ELSE i

RECURSIVE GCD(_, _)
GCD(a, b) == IF b = 0 THEN a ELSE GCD(b, a % b)

Rat(n, d) ==
    LET s == IF d < 0 THEN -1 ELSE 1
        g == GCD(Abs(n), Abs(d))
    IN  <<(s * n) \div g, (s * d) \div g>>

FromInt(i) == <<i, 1>>
RAdd(x, y) == Rat(x[1] * y[2] + y[1] * x[2], x[2] * y[2])
RSub(x, y) == Rat(x[1] * y[2] - y[1] * x[2], x[2] * y[2])
\* cross-cancelled before multiplying, so that intermediate products stay small
RMul(x, y) ==
    LET g1 == GCD(Abs(x[1]), y[2])
        g2 == GCD(Abs(y[1]), x[2])
    IN  Rat((x[1] \div g1) * (y[1] \div g2), (x[2] \div g2) * (y[2] \div g1))
RDiv(x, y) == RMul(x, Rat(y[2], y[1]))
RLess(x, y) == x[1] * y[2] < y[1] * x[2]
RLeq(x, y) == x[1] * y[2] <= y[1] * x[2]
\* Python's int(x): truncation toward zero
RInt(x) == IF x[1] >= 0 THEN x[1] \div x[2] ELSE -((-x[1]) \div x[2])

NoExc == [type |-> "none", msg |-> ""]

NaN == <<>>
IsNaN(c) == c = <<>>

Range(s) == {s[i] : i \in DOMAIN s}

RECURSIVE SumSeq(_)
SumSeq(s) ==
    IF Len(s) = 0 THEN FromInt(0)
    ELSE IF Len(s) = 1 THEN s[1]
    ELSE LET half == Len(s) \div 2
         IN  RAdd(SumSeq(SubSeq(s, 1, half)), SumSeq(SubSeq(s, half + 1, Len(s))))

(***************************************************************************)
(* Texts.                                                                  *)
(***************************************************************************)
Ord ==
    (" " :> 32) @@ ("-" :> 45) @@ ("." :> 46) @@ ("/" :> 47) @@
    ("0" :> 48) @@ ("1" :> 49) @@ ("2" :> 50) @@ ("3" :> 51) @@ ("4" :> 52) @@
    ("5" :> 53) @@ ("6" :> 54) @@ ("7" :> 55) @@ ("8" :> 56) @@ ("9" :> 57) @@
    (":" :> 58)

DigitChars == {"0", "1", "2", "3", "4", "5", "6", "7", "8", "9"}

\* str < str
RECURSIVE TextLess(_, _)
TextLess(a, b) ==
    IF b = <<>> THEN FALSE
    ELSE IF a = <<>> THEN TRUE
    ELSE IF a[1] # b[1] THEN Ord[a[1]] < Ord[b[1]]
    ELSE TextLess(Tail(a), Tail(b))

\* str.split(sep), for a one-character separator
RECURSIVE Split(_, _)
Split(t, sep) ==
    IF \A i \in DOMAIN t : t[i] # sep THEN <<t>>
    ELSE LET k == CHOOSE i \in DOMAIN t :
                      t[i] = sep /\ \A j \in 1..(i - 1) : t[j] # sep
         IN  <<SubSeq(t, 1, k - 1)>> \o Split(SubSeq(t, k + 1, Len(t)), sep)

IsDigits(t, lo, hi) ==
    Len(t) >= lo /\ Len(t) <= hi /\ \A i \in DOMAIN t : t[i] \in DigitChars

RECURSIVE DigitsValue(_)
DigitsValue(t) ==
    IF t = <<>> THEN 0
    ELSE 10 * DigitsValue(SubSeq(t, 1, Len(t) - 1)) + (Ord[t[Len(t)]] - 48)

RECURSIVE Pow10(_)
Pow10(k) == IF k = 0 THEN 1 ELSE 10 * Pow10(k - 1)

(***************************************************************************)
(* convert.py: timestamps.                                                 *)
(*                                                                         *)
(* datetime.timestamp() of a naive datetime counts from the epoch in the   *)
(* local zone.  The model's epoch is the local midnight that starts the    *)
(* day of the recording (a whole number of seconds after the Unix epoch,   *)
(* so unix_ms and lsl_unix_ts are both shifted by the same constant), the  *)
(* zone has no clock change during the recording, and the recording stays  *)
(* within the first minutes of that day.                                   *)
(***************************************************************************)
BadFormat == [type |-> "ValueError", msg |-> "time data does not match format"]

\* datetime.datetime.strptime(x, "%Y-%m-%d %H:%M:%S.%f")
StrpTime(x) ==
    IF IsNaN(x) THEN [exc |-> [type |-> "TypeError", msg |-> "strptime() argument 1 must be str"]]
    ELSE
    LET sp == Split(x, " ") IN
    IF Len(sp) # 2 THEN [exc |-> BadFormat]
    ELSE
    LET d == Split(sp[1], "-")
        t == Split(sp[2], ":")
    IN
    IF Len(d) # 3 \/ Len(t) # 3 THEN [exc |-> BadFormat]
    ELSE
    LET sf == Split(t[3], ".") IN
    IF Len(sf) # 2 THEN [exc |-> BadFormat]
    ELSE IF ~ /\ IsDigits(d[1], 4, 4) /\ IsDigits(d[2], 1, 2) /\ IsDigits(d[3], 1, 2)
              /\ IsDigits(t[1], 1, 2) /\ IsDigits(t[2], 1, 2)
              /\ IsDigits(sf[1], 1, 2) /\ IsDigits(sf[2], 1, 6)
         THEN [exc |-> BadFormat]
    ELSE IF ~ /\ DigitsValue(d[2]) \in 1..12 /\ DigitsValue(d[3]) \in 1..31
              /\ DigitsValue(t[1]) <= 23 /\ DigitsValue(t[2]) <= 59
              /\ DigitsValue(sf[1]) <= 59
         THEN [exc |-> BadFormat]
    ELSE [exc |-> NoExc,
          hour |-> DigitsValue(t[1]), minute |-> DigitsValue(t[2]),
          second |-> DigitsValue(sf[1]),
          microsecond |-> DigitsValue(sf[2]) * Pow10(6 - Len(sf[2]))]

\* datetime.datetime.timestamp(date_format)
Timestamp(dt) ==
    Rat((dt.hour * 3600 + dt.minute * 60 + dt.second) * 1000000 + dt.microsecond,
        1000000)

timestamp_to_unix_seconds(x) == Timestamp(StrpTime(x))

timestamp_to_unix_milliseconds(x) ==
    RInt(RMul(Timestamp(StrpTime(x)), FromInt(1000)))

(***************************************************************************)
(* Dataframes.  A dataframe is a sequence of rows; a row is a function     *)
(* from column names to cells.                                             *)
(***************************************************************************)
Column(df, c) == [i \in DOMAIN df |-> df[i][c]]

\* df[cols]
Project(df, cols) == [i \in DOMAIN df |-> [c \in cols |-> df[i][c]]]

\* df[c] = values
WithColumn(df, c, values) ==
    [i \in DOMAIN df |->
        [k \in DOMAIN df[i] \cup {c} |-> IF k = c THEN values[i] ELSE df[i][k]]]

\* df.rename(columns=mapping)
Rename(df, mapping) ==
    LET New(k) == IF k \in DOMAIN mapping THEN mapping[k] ELSE k IN
    [i \in DOMAIN df |->
        [c \in {New(k) : k \in DOMAIN df[i]} |->
            df[i][CHOOSE k \in DOMAIN df[i] : New(k) = c]]]

\* df.sort_values(c): the default kind is quicksort, which is not stable, so
\* rows with equal keys come out in any order
SortValues(df, c) ==
    {[i \in DOMAIN df |-> df[p[i]]] :
        p \in {q \in Permutations(DOMAIN df) :
                 \A i, j \in DOMAIN df :
                    i < j => RLeq(df[q[i]][c], df[q[j]][c])}}

\* GroupBy.first() / GroupBy.last() of one column of one group: the first / last
\* cell that is not missing (pandas skips NA), missing when there is none
GroupFirst(cells) ==
    IF \A i \in DOMAIN cells : IsNaN(cells[i]) THEN NaN
    ELSE cells[CHOOSE i \in DOMAIN cells :
                 ~IsNaN(cells[i]) /\ \A j \in 1..(i - 1) : IsNaN(cells[j])]

GroupLast(cells) ==
    IF \A i \in DOMAIN cells : IsNaN(cells[i]) THEN NaN
    ELSE cells[CHOOSE i \in DOMAIN cells :
                 ~IsNaN(cells[i]) /\ \A j \in (i + 1)..Len(cells) : IsNaN(cells[j])]

\* the order of two cells of column c: str order for TimeStamp, numeric otherwise
CellLess(c, x, y) == IF c = "TimeStamp" THEN TextLess(x, y) ELSE RLess(x, y)

\* the order of two group keys (tuples of the cells of the columns by)
KeyLess(by, a, b) ==
    \E k \in DOMAIN by :
        /\ \A j \in 1..(k - 1) : a[j] = b[j]
        /\ a[k] # b[k]
        /\ CellLess(by[k], a[k], b[k])

RECURSIVE SortedKeys(_, _)
SortedKeys(by, S) ==
    IF S = {} THEN <<>>
    ELSE LET m == CHOOSE x \in S : \A y \in S \ {x} : KeyLess(by, x, y)
         IN  <<m>> \o SortedKeys(by, S \ {m})

\* df.groupby(by, as_index=False).first() / .last(), by a list of columns: one
\* row per key, the keys sorted (sort=True), rows with a missing key cell
\* dropped (dropna=True), every other column aggregated
GroupBy(df, by, how) ==
    LET KeyOf(r) == [k \in DOMAIN by |-> r[by[k]]]
        keys == SortedKeys(by, {k \in {KeyOf(df[i]) : i \in DOMAIN df} :
                                   \A j \in DOMAIN by : ~IsNaN(k[j])})
    IN  [g \in DOMAIN keys |->
            LET rows == SelectSeq(df, LAMBDA r : KeyOf(r) = keys[g])
            IN  [c \in DOMAIN rows[1] |->
                    IF c \in Range(by) THEN rows[1][c]
                    ELSE IF how = "last" THEN GroupLast(Column(rows, c))
                    ELSE GroupFirst(Column(rows, c))]]

(***************************************************************************)
(* convert.py: mm_to_bluemuse.                                             *)
(***************************************************************************)
MUSE_REMAPPINGS ==
    ("RAW_TP9" :> "TP9") @@ ("RAW_TP10" :> "TP10") @@ ("RAW_AF7" :> "AF7") @@
    ("RAW_AF8" :> "AF8") @@ ("AUX_RIGHT" :> "Right AUX") @@ ("AUX_LEFT" :> "Left AUX") @@
    ("Accelerometer_X" :> "accel_x") @@ ("Accelerometer_Y" :> "accel_y") @@
    ("Accelerometer_Z" :> "accel_z") @@ ("Gyro_X" :> "gyro_x") @@
    ("Gyro_Y" :> "gyro_y") @@ ("Gyro_Z" :> "gyro_z")

EEG_COLUMNS_TS ==
    {"TimeStamp", "unix_ms", "lsl_unix_ts", "TP9", "AF7", "AF8", "TP10", "Right AUX"}
ACCEL_COLUMNS_TS ==
    {"TimeStamp", "unix_ms", "lsl_unix_ts", "accel_x", "accel_y", "accel_z"}
GYRO_COLUMNS_TS ==
    {"TimeStamp", "unix_ms", "lsl_unix_ts", "gyro_x", "gyro_y", "gyro_z"}

ACCEL_XYZ == ("accel_x" :> "X") @@ ("accel_y" :> "Y") @@ ("accel_z" :> "Z")
GYRO_XYZ == ("gyro_x" :> "X") @@ ("gyro_y" :> "Y") @@ ("gyro_z" :> "Z")

BLINK == <<"/muse/elements/blink">>

\* lines 135-137: the first exception of the two apply() calls, "none" when every
\* TimeStamp parses (NoExc)
ParseFailure(df) ==
    IF \A i \in DOMAIN df : StrpTime(df[i]["TimeStamp"]).exc = NoExc THEN NoExc
    ELSE StrpTime(df[CHOOSE i \in DOMAIN df :
                        /\ StrpTime(df[i]["TimeStamp"]).exc # NoExc
                        /\ \A j \in 1..(i - 1) :
                              StrpTime(df[j]["TimeStamp"]).exc = NoExc]["TimeStamp"]).exc

\* lines 136-138 up to the sort: the frame with its two time columns, renamed
Stamped(df) ==
    Rename(
        WithColumn(
            WithColumn(df, "unix_ms",
                [i \in DOMAIN df |->
                    FromInt(timestamp_to_unix_milliseconds(df[i]["TimeStamp"]))]),
            "lsl_unix_ts",
            [i \in DOMAIN df |-> timestamp_to_unix_seconds(df[i]["TimeStamp"])]),
        MUSE_REMAPPINGS)

\* lines 141-155: the four frames written, from the sorted frame
Components(sorted, groupby_choice) ==
    LET blinks == SelectSeq(sorted, LAMBDA r : r["Elements"] = BLINK)
        signals == SelectSeq(sorted, LAMBDA r : IsNaN(r["Elements"]))
        how == IF groupby_choice = "last" THEN "last" ELSE "first"
    IN  [eeg |-> GroupBy(Project(signals, EEG_COLUMNS_TS), <<"TimeStamp">>, how),
         accel |-> Rename(GroupBy(Project(signals, ACCEL_COLUMNS_TS), <<"TimeStamp">>, how),
                          ACCEL_XYZ),
         gyro |-> Rename(GroupBy(Project(signals, GYRO_COLUMNS_TS), <<"TimeStamp">>, how),
                         GYRO_XYZ),
         blinks |-> blinks]

(***************************************************************************)
(* The Mind Monitor files of the model: up to MaxRows rows, each a signal  *)
(* row (Elements empty, every channel 1, every channel 2, or 2 with one    *)
(* channel of each sensor empty) stamped 9.0 s, 10.0 s or 10.0015 s after  *)
(* midnight (the seconds field of the first is not zero-padded), a blink   *)
(* row (channels empty), or a signal row whose TimeStamp lacks the         *)
(* fractional part.                                                        *)
(***************************************************************************)
RawChannels ==
    {"RAW_TP9", "RAW_TP10", "RAW_AF7", "RAW_AF8", "AUX_RIGHT",
     "Accelerometer_X", "Accelerometer_Y", "Accelerometer_Z",
     "Gyro_X", "Gyro_Y", "Gyro_Z"}

DayAndMinute ==
    <<"2", "0", "2", "4", "-", "0", "1", "-", "0", "1", " ", "0", "0", ":", "0", "0", ":">>

TS_9 == DayAndMinute \o <<"9", ".", "0">>
TS_10 == DayAndMinute \o <<"1", "0", ".", "0">>
TS_10_0015 == DayAndMinute \o <<"1", "0", ".", "0", "0", "1", "5">>
TS_NoFraction == DayAndMinute \o <<"1", "0">>

GoodTimeStamps == {TS_9, TS_10, TS_10_0015}

SignalRow(ts, v, empty) ==
    [c \in {"TimeStamp", "Elements"} \cup RawChannels |->
        IF c = "TimeStamp" THEN ts
        ELSE IF c = "Elements" THEN NaN
        ELSE IF c \in empty THEN NaN
        ELSE FromInt(v)]

BlinkRow(ts) ==
    [c \in {"TimeStamp", "Elements"} \cup RawChannels |->
        IF c = "TimeStamp" THEN ts
        ELSE IF c = "Elements" THEN BLINK
        ELSE NaN]

MindMonitorRows ==
    UNION {{SignalRow(ts, 1, {}), SignalRow(ts, 2, {}),
            SignalRow(ts, 2, {"RAW_TP9", "Accelerometer_X", "Gyro_X"})} :
               ts \in GoodTimeStamps}
    \cup {BlinkRow(TS_10), SignalRow(TS_NoFraction, 1, {})}

MindMonitorFiles == UNION {[1..n -> MindMonitorRows] : n \in 0..MaxRows}

NoFiles == <<>>

\* mm_to_bluemuse(target_filepath, output_dir, groupby_choice), lines 135-170:
\* what a call on the file df can end in.  An exception of line 136 leaves before
\* anything is written
MmToBluemuseSkipsBadRows(df, groupby_choice) ==
    LET good == SelectSeq(df, LAMBDA r : StrpTime(r["TimeStamp"]).exc = NoExc) IN
    {[exc |-> NoExc, ret |-> <<"[recording]-converted">>,
      files |-> LET out == Components(sorted, groupby_choice) IN
                ("EEG.csv" :> out.eeg) @@ ("Accelerometer.csv" :> out.accel)
                @@ ("Gyroscope.csv" :> out.gyro) @@ ("BLINKS.csv" :> out.blinks)] :
        sorted \in SortValues(Stamped(good), "unix_ms")}

mm_to_bluemuse(df, groupby_choice) ==
    IF ParseFailure(df) # NoExc
    THEN {[exc |-> ParseFailure(df), ret |-> <<>>, files |-> NoFiles]}
    ELSE {[exc |-> NoExc, ret |-> <<"[recording]-converted">>,
           files |-> LET out == Components(sorted, groupby_choice) IN
                     ("EEG.csv" :> out.eeg) @@ ("Accelerometer.csv" :> out.accel)
                     @@ ("Gyroscope.csv" :> out.gyro) @@ ("BLINKS.csv" :> out.blinks)] :
             sorted \in SortValues(Stamped(df), "unix_ms")}

MmToBluemuse ==
    /\ mm_pc = "idle"
    /\ \E choice \in {"last", "first"} :
       \E outcome \in mm_to_bluemuse(mm_csv, choice) :
          /\ mm_pc' = "mm_to_bluemuse"
          /\ mm_args' = [output_dir |-> "converted", groupby_choice |-> choice]
          /\ mm_exc' = outcome.exc
          /\ mm_ret' = outcome.ret
          /\ mm_files' = outcome.files
          /\ UNCHANGED mm_csv

ConvertInit ==
    /\ mm_csv \in MindMonitorFiles
    /\ mm_pc = "idle"
    /\ mm_args = <<>>
    /\ mm_ret = <<>>
    /\ mm_exc = NoExc
    /\ mm_files = NoFiles

\* mm_to_bluemuse on every Mind Monitor file of the model
SpecConvert == ConvertInit /\ [][MmToBluemuse]_vars

(***************************************************************************)
(* Claims about mm_to_bluemuse.                                            *)
(***************************************************************************)
Converted == mm_pc = "mm_to_bluemuse" /\ mm_exc = NoExc

SignalFiles == {"EEG.csv", "Accelerometer.csv", "Gyroscope.csv"}

\* the input column behind each channel column of an output file
RawOf ==
    ("EEG.csv" :> (("TP9" :> "RAW_TP9") @@ ("AF7" :> "RAW_AF7") @@ ("AF8" :> "RAW_AF8")
                   @@ ("TP10" :> "RAW_TP10") @@ ("Right AUX" :> "AUX_RIGHT")))
    @@ ("Accelerometer.csv" :> (("X" :> "Accelerometer_X") @@ ("Y" :> "Accelerometer_Y")
                                @@ ("Z" :> "Accelerometer_Z")))
    @@ ("Gyroscope.csv" :> (("X" :> "Gyro_X") @@ ("Y" :> "Gyro_Y") @@ ("Z" :> "Gyro_Z")))

\* the signal rows of the input file, in input order
InputSignals == SelectSeq(mm_csv, LAMBDA r : IsNaN(r["Elements"]))

\* the input signal row that the tie-break names for TimeStamp t
Winner(t) ==
    LET rows == SelectSeq(InputSignals, LAMBDA r : r["TimeStamp"] = t) IN
    IF mm_args.groupby_choice = "last" THEN rows[Len(rows)] ELSE rows[1]

\* C1: signal rows sharing a TimeStamp collapse to one output row whose channel
\* values are all those of the last such input row under 'last', of the first
\* under 'first'.
C1_TieBreakRowWins ==
    Converted =>
        \A f \in SignalFiles :
            /\ {mm_files[f][i]["TimeStamp"] : i \in DOMAIN mm_files[f]}
                  = {InputSignals[i]["TimeStamp"] : i \in DOMAIN InputSignals}
            /\ \A i, j \in DOMAIN mm_files[f] :
                  mm_files[f][i]["TimeStamp"] = mm_files[f][j]["TimeStamp"] => i = j
            /\ \A i \in DOMAIN mm_files[f] : \A ch \in DOMAIN RawOf[f] :
                  mm_files[f][i][ch] = Winner(mm_files[f][i]["TimeStamp"])[RawOf[f][ch]]

\* C2: each reconciled output has no two rows with the same TimeStamp and its
\* rows are in non-decreasing unix_ms order.
C2_DistinctAndSorted ==
    Converted =>
        \A f \in SignalFiles : \A i, j \in DOMAIN mm_files[f] :
            i < j => /\ mm_files[f][i]["TimeStamp"] # mm_files[f][j]["TimeStamp"]
                     /\ RLeq(mm_files[f][i]["unix_ms"], mm_files[f][j]["unix_ms"])

\* some row of the input file has a TimeStamp that strptime refuses
HasBadTimeStamp ==
    \E i \in DOMAIN mm_csv : StrpTime(mm_csv[i]["TimeStamp"]).exc # NoExc

\* C4: when the TimeStamp of any input row fails to parse, the call raises and
\* writes none of EEG, Accelerometer, Gyroscope, BLINKS.
C4_BadTimeStampIsFatal ==
    (mm_pc = "mm_to_bluemuse" /\ HasBadTimeStamp) =>
        /\ mm_exc = BadFormat
        /\ mm_ret = <<>>
        /\ DOMAIN mm_files = {}

\* a call that raised on a file holding a bad row after a good one
C4_Witness ==
    /\ mm_pc = "mm_to_bluemuse"
    /\ mm_exc.type = "ValueError"
    /\ Len(mm_csv) >= 2
    /\ StrpTime(mm_csv[1]["TimeStamp"]).exc = NoExc
    /\ HasBadTimeStamp

(***************************************************************************)
(* convert.py: synthetic timestamps and extract_feature.                   *)
(***************************************************************************)
MaxSamples == 4

EEG_COLUMNS == <<"TimeStamp", "TP9", "AF7", "AF8", "TP10", "Right AUX">>
ACCEL_COLUMNS == <<"TimeStamp", "accel_x", "accel_y", "accel_z">>
GYRO_COLUMNS == <<"TimeStamp", "gyro_x", "gyro_y", "gyro_z">>

\* the nominal rates callers pass (the two of _MUSE_SAMPLE_RATES, and 1 Hz)
NominalRates == {1, 52, 256}
StartTimes == {0, 9}

\* sample_synthetic_timestamps(n_samples, sfreq, start_unix_ms): np.arange(n) is
\* 0..n-1, empty when n <= 0
SyntheticByInferredRate(n_samples, sfreq, start_unix_ms) ==
    [i \in 1..n_samples |->
        RAdd(FromInt(start_unix_ms),
             IF n_samples > 1 THEN Rat((i - 1) * 1000, n_samples - 1) ELSE FromInt(0))]

sample_synthetic_timestamps(n_samples, sfreq, start_unix_ms) ==
    LET dt_ms == RDiv(FromInt(1000), FromInt(sfreq)) IN
    [i \in 1..n_samples |-> RAdd(FromInt(start_unix_ms), RMul(FromInt(i - 1), dt_ms))]

\* extract_feature(df, columns, sample_rate, start_unix_ms)
extract_feature(df, columns, sample_rate, start_unix_ms) ==
    LET deduped == GroupBy(df, columns, "last")
        stamped == WithColumn(deduped, "unix_ms",
                      sample_synthetic_timestamps(Len(deduped), sample_rate,
                                                  start_unix_ms))
    IN  WithColumn(stamped, "lsl_unix_ts",
            [i \in DOMAIN stamped |-> RMul(stamped[i]["unix_ms"], FromInt(1000))])

\* a call of sample_synthetic_timestamps; 1000.0 / 0 raises
SampleSyntheticTimestamps ==
    /\ mm_pc = "idle"
    /\ \E n \in 0..MaxSamples, sfreq \in NominalRates \cup {0}, start \in StartTimes :
          /\ mm_pc' = "sample_synthetic_timestamps"
          /\ mm_args' = [n_samples |-> n, sfreq |-> sfreq, start_unix_ms |-> start]
          /\ IF sfreq = 0
             THEN /\ mm_exc' = [type |-> "ZeroDivisionError",
                                msg |-> "float division by zero"]
                  /\ mm_ret' = <<>>
             ELSE /\ mm_exc' = NoExc
                  /\ mm_ret' = sample_synthetic_timestamps(n, sfreq, start)
          /\ UNCHANGED <<mm_csv, mm_files>>

\* a call of extract_feature on the signal rows of the renamed file (as
\* read_mm_file and the first version of mm_to_bluemuse pass them)
ExtractFeature ==
    /\ mm_pc = "idle"
    /\ \E columns \in {EEG_COLUMNS, ACCEL_COLUMNS, GYRO_COLUMNS},
          sample_rate \in NominalRates, start \in StartTimes :
          LET signals == SelectSeq(Rename(mm_csv, MUSE_REMAPPINGS),
                                LAMBDA r : IsNaN(r["Elements"]))
          IN  /\ mm_pc' = "extract_feature"
              /\ mm_args' = [columns |-> columns, sample_rate |-> sample_rate,
                             start_unix_ms |-> start]
              /\ mm_exc' = NoExc
              /\ mm_ret' = extract_feature(signals, columns, sample_rate, start)
              /\ UNCHANGED <<mm_csv, mm_files>>

\* the files of the runs that exercise every function of convert.py: rows of
\* four kinds, no bad TimeStamp
SynthRows ==
    {SignalRow(TS_9, 1, {}), SignalRow(TS_10, 1, {}), SignalRow(TS_10_0015, 2, {}),
     SignalRow(TS_10, 2, {"RAW_TP9", "Accelerometer_X", "Gyro_X"}), BlinkRow(TS_10)}

SynthInit ==
    /\ mm_csv \in UNION {[1..n -> SynthRows] : n \in 0..MaxRows}
    /\ mm_pc = "idle"
    /\ mm_args = <<>>
    /\ mm_ret = <<>>
    /\ mm_exc = NoExc
    /\ mm_files = NoFiles

SynthNext == MmToBluemuse \/ ExtractFeature \/ SampleSyntheticTimestamps

\* both conversion paths and the timestamp generator
SpecSynth == SynthInit /\ [][SynthNext]_vars

\* a row's two time columns denote the same instant
SameInstant(row) ==
    row["unix_ms"] = FromInt(RInt(RMul(row["lsl_unix_ts"], FromInt(1000))))

\* the rows written by mm_to_bluemuse denote one instant in both columns
DirectPathSameInstant ==
    Converted =>
        \A f \in DOMAIN mm_files : \A i \in DOMAIN mm_files[f] :
            SameInstant(mm_files[f][i])

\* C3: every row produced by the conversion has unix_ms = integer(unix seconds
\* x 1000) with lsl_unix_ts the unix seconds, on the direct path (mm_to_bluemuse)
\* and on the synthetic path (extract_feature).
C3_SameInstantOnBothPaths ==
    /\ DirectPathSameInstant
    /\ (mm_pc = "extract_feature" /\ mm_exc = NoExc) =>
           \A i \in DOMAIN mm_ret : SameInstant(mm_ret[i])

\* ts holds n timestamps, ts[i] = start + (i - 1) x 1000 / rate
EvenlySpaced(ts, n, rate, start) ==
    /\ Len(ts) = n
    /\ n > 0 => ts[1] = FromInt(start)
    /\ \A i \in 1..(n - 1) :
          /\ RLess(ts[i], ts[i + 1])
          /\ RMul(RSub(ts[i + 1], ts[i]), FromInt(rate)) = FromInt(1000)
    /\ \A i \in 1..n :
          RMul(RSub(ts[i], FromInt(start)), FromInt(rate)) = FromInt((i - 1) * 1000)

\* C7: sample_synthetic_timestamps(N, rate, start) returns exactly N timestamps,
\* timestamp[i] = start + i x (1000/rate) ms: the first equals start, they
\* increase strictly with constant spacing; extract_feature stamps its rows with
\* the rate its caller passed, whatever the data.
C7_SyntheticTimestamps ==
    /\ (mm_pc = "sample_synthetic_timestamps" /\ mm_exc = NoExc) =>
           EvenlySpaced(mm_ret, mm_args.n_samples, mm_args.sfreq,
                        mm_args.start_unix_ms)
    /\ (mm_pc = "extract_feature" /\ mm_exc = NoExc) =>
           EvenlySpaced(Column(mm_ret, "unix_ms"), Len(mm_ret), mm_args.sample_rate,
                        mm_args.start_unix_ms)

\* four timestamps at 256 Hz from 9 ms: the last is 9 + 3000/256 ms
C7_Witness ==
    /\ mm_pc = "sample_synthetic_timestamps"
    /\ mm_exc = NoExc
    /\ mm_args = [n_samples |-> 4, sfreq |-> 256, start_unix_ms |-> 9]
    /\ mm_ret[4] = Rat(9 * 256 + 3000, 256)

(***************************************************************************)
(* convert.py: estimate_sample_rate_duration.                              *)
(***************************************************************************)
MaxStamps == 4

NotEnough ==
    [type |-> "ValueError", msg |-> "Not enough timestamps to estimate sample rate."]
NonPositive == [type |-> "ValueError", msg |-> "Non-positive duration detected."]

\* ts[~np.isnan(ts)]
DropNaN(column) == SelectSeq(column, LAMBDA c : ~IsNaN(c))

\* estimate_sample_rate_duration(df, timestamp_col, is_milli), on the column
\* df[timestamp_col]
EstimateCountingEverySample(column, is_milli) ==
    LET ts == DropNaN(column) IN
    IF Len(ts) < 2 THEN [exc |-> NotEnough, ret |-> <<>>]
    ELSE
    LET span == RSub(ts[Len(ts)], ts[1])
        duration_sec == IF is_milli THEN RDiv(span, FromInt(1000)) ELSE span
    IN  IF RLeq(duration_sec, FromInt(0)) THEN [exc |-> NonPositive, ret |-> <<>>]
        ELSE [exc |-> NoExc, ret |-> RDiv(FromInt(Len(ts)), duration_sec)]

\* with the second guard letting a zero duration through: numpy divides to inf
EstimateDividingByZero(column, is_milli) ==
    LET ts == DropNaN(column) IN
    IF Len(ts) < 2 THEN [exc |-> NotEnough, ret |-> <<>>]
    ELSE
    LET span == RSub(ts[Len(ts)], ts[1])
        duration_sec == IF is_milli THEN RDiv(span, FromInt(1000)) ELSE span
    IN  IF RLess(duration_sec, FromInt(0)) THEN [exc |-> NonPositive, ret |-> <<>>]
        ELSE IF duration_sec = FromInt(0) THEN [exc |-> NoExc, ret |-> <<1, 0>>]
        ELSE [exc |-> NoExc, ret |-> RDiv(FromInt(Len(ts) - 1), duration_sec)]

estimate_sample_rate_duration(column, is_milli) ==
    LET ts == DropNaN(column) IN
    IF Len(ts) < 2 THEN [exc |-> NotEnough, ret |-> <<>>]
    ELSE
    LET span == RSub(ts[Len(ts)], ts[1])
        duration_sec == IF is_milli THEN RDiv(span, FromInt(1000)) ELSE span
    IN  IF RLeq(duration_sec, FromInt(0)) THEN [exc |-> NonPositive, ret |-> <<>>]
        ELSE [exc |-> NoExc, ret |-> RDiv(FromInt(Len(ts) - 1), duration_sec)]

\* the timestamp columns of the model: up to MaxStamps cells, each missing or
\* 0, 10, 20 or 30, in any order
StampCells == {NaN, FromInt(0), FromInt(10), FromInt(20), FromInt(30)}

EstimateSampleRateDuration ==
    /\ mm_pc = "idle"
    /\ \E column \in UNION {[1..n -> StampCells] : n \in 0..MaxStamps},
          is_milli \in BOOLEAN :
          LET outcome == estimate_sample_rate_duration(column, is_milli) IN
          /\ mm_pc' = "estimate_sample_rate_duration"
          /\ mm_args' = [column |-> column, is_milli |-> is_milli]
          /\ mm_exc' = outcome.exc
          /\ mm_ret' = outcome.ret
          /\ UNCHANGED <<mm_csv, mm_files>>

RateInit ==
    /\ mm_csv = <<>>
    /\ mm_pc = "idle"
    /\ mm_args = <<>>
    /\ mm_ret = <<>>
    /\ mm_exc = NoExc
    /\ mm_files = NoFiles

\* the rate estimator on every timestamp column of the model
SpecRate == RateInit /\ [][EstimateSampleRateDuration]_vars

Estimated == mm_pc = "estimate_sample_rate_duration"

\* the non-missing timestamps of the call, their number and last minus first
ValidStamps == DropNaN(mm_args.column)
StampSpan == RSub(ValidStamps[Len(ValidStamps)], ValidStamps[1])

\* C5: with N >= 2 non-missing samples and positive duration the estimator
\* returns (N-1) / duration in seconds, the duration being last minus first
\* (divided by 1000 for a millisecond column); for [0, 10, 20, 30] ms it
\* returns 100.0.
C5_RateIsCountOverDuration ==
    /\ (Estimated /\ Len(ValidStamps) >= 2 /\ RLess(FromInt(0), StampSpan)) =>
          /\ mm_exc = NoExc
          /\ RMul(mm_ret, StampSpan)
                = FromInt((Len(ValidStamps) - 1)
                            * (IF mm_args.is_milli THEN 1000 ELSE 1))
    /\ (Estimated /\ mm_args.is_milli
          /\ mm_args.column = <<FromInt(0), FromInt(10), FromInt(20), FromInt(30)>>) =>
          mm_ret = FromInt(100)

\* the estimator ran on [0, 10, 20, 30] ms and returned 100
C5_Witness ==
    /\ Estimated
    /\ mm_args.is_milli
    /\ mm_args.column = <<FromInt(0), FromInt(10), FromInt(20), FromInt(30)>>
    /\ mm_exc = NoExc
    /\ mm_ret = FromInt(100)

\* C6: the estimator raises an explicit error, and returns no rate, whenever
\* fewer than 2 timestamps remain after dropping missing values or the duration
\* (last minus first) is zero or negative.
C6_TooFewOrNonPositiveRaises ==
    (Estimated /\ (Len(ValidStamps) < 2 \/ RLeq(StampSpan, FromInt(0)))) =>
        /\ mm_exc \in {NotEnough, NonPositive}
        /\ mm_exc.type = "ValueError"
        /\ mm_ret = <<>>

\* the estimator raised on a column whose first and last valid cells are equal
C6_Witness ==
    /\ Estimated
    /\ Len(ValidStamps) >= 2
    /\ StampSpan = FromInt(0)
    /\ mm_exc = NonPositive

(***************************************************************************)
(* processing/filter.py.  A channel cell read from the file is missing     *)
(* (NaN), a float <<n, d>> or, when written without a decimal point, an    *)
(* integer <<n>>: numpy keeps the channel block as int64 when every cell   *)
(* of every channel is an integer.  scipy's filters are not computed: a    *)
(* filtered signal is the de-meaned samples together with the designs      *)
(* applied to them, except that a linear filter maps the all-zero signal   *)
(* to itself.                                                              *)
(***************************************************************************)
MaxEegRows == 28

FS == 256
NOTCH_FREQ == 60
NOTCH_Q == 25
BANDPASS_LOW == 1
BANDPASS_HIGH == 40
BANDPASS_ORDER == 4
EEG_CHANNELS == <<"TP9", "AF7", "AF8", "TP10", "Right AUX">>

IsInt(c) == Len(c) = 1
AsFloat(c) == IF IsInt(c) THEN FromInt(c[1]) ELSE c

Min(S) == CHOOSE m \in S : \A k \in S : m <= k
Max(S) == CHOOSE m \in S : \A k \in S : k <= m

InterpEmpty == [type |-> "ValueError", msg |-> "array of sample points is empty"]

\* np.interp(p, idx[~nans], x[~nans]): the edge value outside the valid
\* samples, the chord between the two neighbours inside
Interp(p, valid, x) ==
    LET below == {v \in valid : v < p}
        above == {v \in valid : v > p}
    IN  IF below = {} THEN x[Min(above)]
        ELSE IF above = {} THEN x[Max(below)]
        ELSE LET lo == Max(below)
                 hi == Min(above)
                 slope == RDiv(RSub(x[hi], x[lo]), FromInt(hi - lo))
             IN  RAdd(RMul(slope, FromInt(p - lo)), x[lo])

\* an interpolation that fills a channel without any valid sample with zeros
InterpolateNansFillingZeros(x) ==
    LET valid == {i \in DOMAIN x : ~IsNaN(x[i])} IN
    IF valid = DOMAIN x THEN [exc |-> NoExc, ret |-> x]
    ELSE IF valid = {} THEN [exc |-> NoExc, ret |-> [i \in DOMAIN x |-> FromInt(0)]]
    ELSE [exc |-> NoExc,
          ret |-> [i \in DOMAIN x |-> IF i \in valid THEN x[i] ELSE Interp(i, valid, x)]]

\* an interpolation that repeats the last valid sample over a gap
InterpolateNansHoldingLast(x) ==
    LET valid == {i \in DOMAIN x : ~IsNaN(x[i])} IN
    IF valid = DOMAIN x THEN [exc |-> NoExc, ret |-> x]
    ELSE IF valid = {} THEN [exc |-> InterpEmpty, ret |-> x]
    ELSE [exc |-> NoExc,
          ret |-> [i \in DOMAIN x |->
                      IF i \in valid THEN x[i]
                      ELSE IF \E v \in valid : v < i
                           THEN x[Max({v \in valid : v < i})]
                           ELSE x[Min(valid)]]]

interpolate_nans(x) ==
    LET valid == {i \in DOMAIN x : ~IsNaN(x[i])} IN
    IF valid = DOMAIN x THEN [exc |-> NoExc, ret |-> x]
    ELSE IF valid = {} THEN [exc |-> InterpEmpty, ret |-> x]
    ELSE [exc |-> NoExc,
          ret |-> [i \in DOMAIN x |-> IF i \in valid THEN x[i] ELSE Interp(i, valid, x)]]

\* scipy.signal.iirnotch: a second-order section, 3 coefficients in b and in a
iirnotch(w0, Q, fs) ==
    [design |-> "iirnotch", w0 |-> w0, Q |-> Q, fs |-> fs, taps |-> 3]

\* scipy.signal.butter, btype='band': order 2N, 2N + 1 coefficients
butter(N, Wn, fs, btype) ==
    [design |-> "butter", N |-> N, Wn |-> Wn, fs |-> fs, btype |-> btype,
     taps |-> 2 * N + 1]

\* filtfilt's default padlen, 3 * max(len(a), len(b))
PadLen(b_a) == 3 * b_a.taps

PadLenError ==
    [type |-> "ValueError",
     msg |-> "The length of the input vector x must be greater than padlen"]

\* scipy.signal.filtfilt(b, a, x) on a signal [samples, filters]
filtfilt(b_a, x) ==
    IF Len(x.samples) <= PadLen(b_a) THEN [exc |-> PadLenError, ret |-> x]
    ELSE [exc |-> NoExc,
          ret |-> IF \A i \in DOMAIN x.samples : x.samples[i] = FromInt(0)
                  THEN x
                  ELSE [x EXCEPT !.filters = Append(@, b_a)]]

Mean(x) == RDiv(SumSeq(x), FromInt(Len(x)))

\* df[EEG_CHANNELS].values: int64 when every channel column is int64,
\* float64 otherwise
Values(df) ==
    LET block == [k \in DOMAIN EEG_CHANNELS |-> Column(df, EEG_CHANNELS[k])]
        int64 == \A k \in DOMAIN block : \A i \in DOMAIN block[k] : IsInt(block[k][i])
    IN  [dtype |-> IF int64 THEN "int64" ELSE "float64",
         data |-> [k \in DOMAIN block |->
                      IF int64 THEN block[k]
                      ELSE [i \in DOMAIN block[k] |-> AsFloat(block[k][i])]]]

\* a channel loop that band-passes before it notches
FilterChannelBandpassFirst(samples, b_a_notch, b_a_bp, apply_bandpass) ==
    LET mean == Mean([i \in DOMAIN samples |-> AsFloat(samples[i])])
        x == [samples |-> [i \in DOMAIN samples |-> RSub(AsFloat(samples[i]), mean)],
              filters |-> <<>>]
        passed == IF apply_bandpass THEN filtfilt(b_a_bp, x)
                  ELSE [exc |-> NoExc, ret |-> x]
    IN  IF passed.exc # NoExc THEN passed ELSE filtfilt(b_a_notch, passed.ret)

\* the body of the channel loop: de-mean, notch, optional band-pass
FilterChannel(samples, b_a_notch, b_a_bp, apply_bandpass) ==
    LET mean == Mean([i \in DOMAIN samples |-> AsFloat(samples[i])])
        x == [samples |-> [i \in DOMAIN samples |-> RSub(AsFloat(samples[i]), mean)],
              filters |-> <<>>]
        notched == filtfilt(b_a_notch, x)
    IN  IF notched.exc # NoExc \/ ~apply_bandpass THEN notched
        ELSE filtfilt(b_a_bp, notched.ret)

\* filtered[:, ch] = x: sample i of a filtered signal, stored in an array of
\* the dtype of eeg_data
Stored(x, i, dtype) ==
    IF Len(x.filters) = 0
    THEN IF dtype = "int64" THEN <<RInt(x.samples[i])>> ELSE x.samples[i]
    ELSE [x |-> x.samples, filters |-> x.filters, i |-> i, dtype |-> dtype]

ChannelIndex(c) == CHOOSE k \in DOMAIN EEG_CHANNELS : EEG_CHANNELS[k] = c

\* an output that keeps the channel columns only
ReassembleSignalsOnly(df, filtered) ==
    [i \in DOMAIN df |->
        [c \in Range(EEG_CHANNELS) |-> filtered[ChannelIndex(c)][i]]]

\* df_filtered = df.copy(); df_filtered[EEG_CHANNELS] = filtered
Reassemble(df, filtered) ==
    [i \in DOMAIN df |->
        [c \in DOMAIN df[i] |->
            IF c \in Range(EEG_CHANNELS) THEN filtered[ChannelIndex(c)][i]
            ELSE df[i][c]]]

FileNotFound == [type |-> "FileNotFoundError", msg |-> "File not found"]

MissingChannel ==
    ("TP9" :> [type |-> "ValueError", msg |-> "Missing EEG channel: TP9"])
    @@ ("AF7" :> [type |-> "ValueError", msg |-> "Missing EEG channel: AF7"])
    @@ ("AF8" :> [type |-> "ValueError", msg |-> "Missing EEG channel: AF8"])
    @@ ("TP10" :> [type |-> "ValueError", msg |-> "Missing EEG channel: TP10"])
    @@ ("Right AUX" :> [type |-> "ValueError", msg |-> "Missing EEG channel: Right AUX"])

\* eeg_csv_path.with_name(eeg_csv_path.stem + "_filtered.csv"), and ".png"
OutPath == ("EEG.csv" :> "EEG_filtered.csv")
PlotPath == ("EEG.csv" :> "EEG_filtered.png")

\* the verification plot saved next to the output
QcPlot == <<>>

Raise(exc) == [exc |-> exc, ret |-> <<>>, files |-> NoFiles]

\* filter_eeg on the file system `files`: the outcome is the exception raised,
\* the path returned and the files written
filter_eeg(files, eeg_csv_path, apply_bandpass) ==
    IF eeg_csv_path \notin DOMAIN files THEN Raise(FileNotFound)
    ELSE
    LET df == files[eeg_csv_path]
        missing == {k \in DOMAIN EEG_CHANNELS : EEG_CHANNELS[k] \notin DOMAIN df[1]}
    IN
    IF missing # {} THEN Raise(MissingChannel[EEG_CHANNELS[Min(missing)]])
    ELSE
    LET eeg_data == Values(df)
        interpolated == [k \in DOMAIN EEG_CHANNELS |-> interpolate_nans(eeg_data.data[k])]
        uninterpolable == {k \in DOMAIN EEG_CHANNELS : interpolated[k].exc # NoExc}
    IN
    IF uninterpolable # {} THEN Raise(interpolated[Min(uninterpolable)].exc)
    ELSE
    LET b_a_notch == iirnotch(NOTCH_FREQ, NOTCH_Q, FS)
        b_a_bp == butter(BANDPASS_ORDER, <<BANDPASS_LOW, BANDPASS_HIGH>>, FS, "band")
        channel == [k \in DOMAIN EEG_CHANNELS |->
                       FilterChannel(interpolated[k].ret, b_a_notch, b_a_bp,
                                     apply_bandpass)]
        unfilterable == {k \in DOMAIN EEG_CHANNELS : channel[k].exc # NoExc}
    IN
    IF unfilterable # {} THEN Raise(channel[Min(unfilterable)].exc)
    ELSE
    LET filtered == [k \in DOMAIN EEG_CHANNELS |->
                        [i \in DOMAIN df |-> Stored(channel[k].ret, i, eeg_data.dtype)]]
    IN  [exc |-> NoExc,
         ret |-> OutPath[eeg_csv_path],
         files |-> (OutPath[eeg_csv_path] :> Reassemble(df, filtered))
                   @@ (PlotPath[eeg_csv_path] :> QcPlot)]

\* def filter_eeg(eeg_csv_path, apply_bandpass:bool=False, verbose:bool=True)
FilterEegParameters == {"eeg_csv_path", "apply_bandpass", "verbose"}

UnexpectedKeyword ==
    [type |-> "TypeError", msg |-> "filter_eeg() got an unexpected keyword argument"]

\* apply_bandpass:bool=False
ApplyBandpassDefault == FALSE

\* what the model's callers pass for apply_bandpass: nothing, or a value
CallerArguments == {<<>>, <<FALSE>>, <<TRUE>>}

\* the keyword arguments of the model's callers: verbose alone, or verbose
\* and a sampling rate of their own
CallerKeywords == {[verbose |-> FALSE], [verbose |-> FALSE, fs |-> 128]}

(***************************************************************************)
(* The EEG files of the model.  Each channel column is one of five shapes  *)
(* over the row count; the other columns are those written by record.py    *)
(* (unix_ms, lsl_unix_ts) and by mm_to_bluemuse (TimeStamp as well).       *)
(***************************************************************************)
Steady(n) == [i \in 1..n |-> FromInt(1)]
Ramp(n) == [i \in 1..n |-> FromInt(i)]
Gappy(n) == [i \in 1..n |-> IF i \in {1, 3, n} THEN NaN ELSE FromInt(i * i)]
Blank(n) == [i \in 1..n |-> NaN]
Counts(n) == [i \in 1..n |-> <<i>>]

Shape(s, n) ==
    CASE s = "steady" -> Steady(n)
      [] s = "ramp" -> Ramp(n)
      [] s = "gappy" -> Gappy(n)
      [] s = "blank" -> Blank(n)
      [] s = "counts" -> Counts(n)

NotchPadLen == PadLen(iirnotch(NOTCH_FREQ, NOTCH_Q, FS))
BandPadLen == PadLen(butter(BANDPASS_ORDER, <<BANDPASS_LOW, BANDPASS_HIGH>>, FS, "band"))

RowCounts == {1, NotchPadLen, NotchPadLen + 1, BandPadLen, MaxEegRows}

Layouts ==
    {{"unix_ms", "lsl_unix_ts"} \cup Range(EEG_CHANNELS),
     {"TimeStamp", "unix_ms", "lsl_unix_ts"} \cup Range(EEG_CHANNELS),
     {"unix_ms", "lsl_unix_ts", "TP9", "AF7", "AF8", "TP10"}}

EegFile(n, columns, tp9, af7, others) ==
    [i \in 1..n |->
        [c \in columns |->
            CASE c = "TimeStamp" -> TS_10
              [] c = "unix_ms" -> FromInt(10000 + 4 * i)
              [] c = "lsl_unix_ts" -> Rat(10000 + 4 * i, 1000)
              [] c = "TP9" -> Shape(tp9, n)[i]
              [] c = "AF7" -> Shape(af7, n)[i]
              [] OTHER -> Shape(others, n)[i]]]

EegFiles ==
    {EegFile(n, columns, tp9, af7, others) :
        n \in RowCounts, columns \in Layouts,
        tp9 \in {"steady", "ramp", "gappy", "blank", "counts"},
        af7 \in {"ramp", "blank", "counts"},
        others \in {"ramp", "counts"}}

FilterEeg ==
    /\ mm_pc = "idle"
    /\ \E eeg_csv_path \in {"EEG.csv", "nowhere.csv"}, passed \in CallerArguments,
          kwargs \in CallerKeywords :
          LET apply_bandpass == IF Len(passed) = 0 THEN ApplyBandpassDefault
                                ELSE passed[1]
              outcome == IF DOMAIN kwargs \subseteq FilterEegParameters
                         THEN filter_eeg("EEG.csv" :> mm_csv, eeg_csv_path,
                                         apply_bandpass)
                         ELSE Raise(UnexpectedKeyword)
          IN  /\ mm_pc' = "filter_eeg"
              /\ mm_args' = [eeg_csv_path |-> eeg_csv_path, passed |-> passed,
                             apply_bandpass |-> apply_bandpass, kwargs |-> kwargs]
              /\ mm_exc' = outcome.exc
              /\ mm_ret' = outcome.ret
              /\ mm_files' = outcome.files
              /\ UNCHANGED mm_csv

FilterInit ==
    /\ mm_csv \in EegFiles
    /\ mm_pc = "idle"
    /\ mm_args = <<>>
    /\ mm_ret = <<>>
    /\ mm_exc = NoExc
    /\ mm_files = NoFiles

\* the filter stage on every EEG file of the model
SpecFilter == FilterInit /\ [][FilterEeg]_vars

Filtered == mm_pc = "filter_eeg" /\ mm_exc = NoExc

FilterOutput == mm_files["EEG_filtered.csv"]

\* C8: the output of filter_eeg has as many rows as its input, the same
\* columns, and every column other than the EEG channel columns identical, row
\* for row, to the input.
C8_OnlyChannelsReplaced ==
    Filtered =>
        /\ Len(FilterOutput) = Len(mm_csv)
        /\ \A i \in DOMAIN mm_csv :
              /\ DOMAIN FilterOutput[i] = DOMAIN mm_csv[i]
              /\ \A c \in DOMAIN mm_csv[i] \ Range(EEG_CHANNELS) :
                    FilterOutput[i][c] = mm_csv[i][c]

\* a file with a TimeStamp column and MaxEegRows rows went through the notch
\* and the band-pass, and its TP9 column was replaced
C8_Witness ==
    /\ Filtered
    /\ mm_args.apply_bandpass
    /\ Len(mm_csv) = MaxEegRows
    /\ "TimeStamp" \in DOMAIN mm_csv[1]
    /\ mm_csv[2]["TP9"] = FromInt(2)
    /\ Len(FilterOutput[2]["TP9"].filters) = 2
    /\ FilterOutput[2]["unix_ms"] = mm_csv[2]["unix_ms"]

\* the call names an existing file and binds its arguments
CallReachesFile ==
    /\ mm_pc = "filter_eeg"
    /\ mm_args.eeg_csv_path = "EEG.csv"
    /\ DOMAIN mm_args.kwargs \subseteq FilterEegParameters

AllMissing(c) ==
    /\ c \in DOMAIN mm_csv[1]
    /\ \A i \in DOMAIN mm_csv : IsNaN(mm_csv[i][c])

\* C9: when a channel of the input consists entirely of missing values,
\* filter_eeg raises to its caller and writes no output file.
C9_AllMissingChannelIsFatal ==
    (mm_pc = "filter_eeg" /\ \E c \in Range(EEG_CHANNELS) : AllMissing(c)) =>
        /\ mm_exc # NoExc
        /\ mm_ret = <<>>
        /\ mm_files = NoFiles

\* a file long enough for both filters, with every channel present and AF7
\* empty, was refused by the interpolation
C9_Witness ==
    /\ CallReachesFile
    /\ Len(mm_csv) = MaxEegRows
    /\ Range(EEG_CHANNELS) \subseteq DOMAIN mm_csv[1]
    /\ AllMissing("AF7")
    /\ ~AllMissing("TP9")
    /\ mm_exc = InterpEmpty
    /\ mm_files = NoFiles

\* C10: a caller of the filter stage who supplies a sampling rate of their own
\* gets a result computed with it: the call is accepted and the notch applied
\* to a ramp in TP9 is designed for that rate.
C10_CallerOverridesSampleRate ==
    (/\ mm_pc = "filter_eeg"
     /\ mm_args.eeg_csv_path = "EEG.csv"
     /\ "fs" \in DOMAIN mm_args.kwargs
     /\ Len(mm_csv) = MaxEegRows
     /\ Range(EEG_CHANNELS) \subseteq DOMAIN mm_csv[1]
     /\ mm_csv[2]["TP9"] = FromInt(2)
     /\ \A c \in Range(EEG_CHANNELS) : ~AllMissing(c)) =>
        /\ mm_exc = NoExc
        /\ FilterOutput[2]["TP9"].filters[1].fs = mm_args.kwargs.fs

(***************************************************************************)
(* analysis/psd.py: compute_bandpowers_time_series.  A decibel value of    *)
(* the model is a multiple of 10, so that its linear power 10^(dB/10) is   *)
(* an exact rational; log10 and the floor 1e-12 are not computed: a        *)
(* reported power is the term log10(sum + 1e-12), kept as its sum.         *)
(* A spectrogram Sxx_dB is [shape, dB]: dB[k][j] for bin k and frame j.    *)
(***************************************************************************)
MaxBins == 2
MaxFrames == 2

CHANNELS == <<"AF7", "AF8", "TP9", "TP10">>

BANDS ==
    <<[band |-> "delta", fmin |-> 1, fmax |-> 4],
      [band |-> "theta", fmin |-> 4, fmax |-> 8],
      [band |-> "alpha", fmin |-> 9, fmax |-> 13],
      [band |-> "beta", fmin |-> 13, fmax |-> 30],
      [band |-> "gamma", fmin |-> 30, fmax |-> 200]>>

\* 10 ** (Sxx_dB / 10)
Linear(dB) ==
    IF dB >= 0 THEN FromInt(Pow10(dB \div 10)) ELSE Rat(1, Pow10((-dB) \div 10))

\* np.log10(band_power + 1e-12)
Log10Floored(band_power) == [log10_of |-> band_power, plus |-> "1e-12"]

IndexOutOfBounds == [type |-> "IndexError", msg |-> "index is out of bounds for axis 0"]

\* a band test that leaves out a bin sitting on the upper edge
BinsBelowUpperEdge(freqs, band) ==
    {k \in DOMAIN freqs : freqs[k] >= band.fmin /\ freqs[k] < band.fmax}

\* np.where((freqs >= fmin) & (freqs <= fmax))[0]
BandBins(freqs, band) ==
    {k \in DOMAIN freqs : freqs[k] >= band.fmin /\ freqs[k] <= band.fmax}

\* a band power that adds the decibel values themselves
BandPowerOfDecibels(Sxx_dB, idx, j) ==
    SumSeq([k \in 1..Sxx_dB.shape[1] |->
               IF k \in idx THEN FromInt(Sxx_dB.dB[k][j]) ELSE FromInt(0)])

\* np.sum(Sxx_linear[idx, :], axis=0)[j]
BandPower(Sxx_dB, idx, j) ==
    SumSeq([k \in 1..Sxx_dB.shape[1] |->
               IF k \in idx THEN Linear(Sxx_dB.dB[k][j]) ELSE FromInt(0)])

\* the body of the band loop with the empty-band test left out
BandRecordsWithoutSkip(freqs, times, ch, Sxx_dB, band) ==
    LET idx == BandBins(freqs, band) IN
    IF \E k \in idx : k > Sxx_dB.shape[1] THEN [exc |-> IndexOutOfBounds, ret |-> <<>>]
    ELSE LET frames == IF Len(times) < Sxx_dB.shape[2] THEN Len(times)
                       ELSE Sxx_dB.shape[2]
         IN  [exc |-> NoExc,
              ret |-> [j \in 1..frames |->
                          [time |-> times[j], channel |-> ch, band |-> band.band,
                           power |-> Log10Floored(BandPower(Sxx_dB, idx, j))]]]

\* the body of the band loop: the records of one channel and one band;
\* zip(times, band_power_log) stops at the shorter of the two
BandRecords(freqs, times, ch, Sxx_dB, band) ==
    LET idx == BandBins(freqs, band) IN
    IF idx = {} THEN [exc |-> NoExc, ret |-> <<>>]
    ELSE IF \E k \in idx : k > Sxx_dB.shape[1]
    THEN [exc |-> IndexOutOfBounds, ret |-> <<>>]
    ELSE LET frames == IF Len(times) < Sxx_dB.shape[2] THEN Len(times)
                       ELSE Sxx_dB.shape[2]
         IN  [exc |-> NoExc,
              ret |-> [j \in 1..frames |->
                          [time |-> times[j], channel |-> ch, band |-> band.band,
                           power |-> Log10Floored(BandPower(Sxx_dB, idx, j))]]]

RECURSIVE Flatten(_)
Flatten(ss) == IF Len(ss) = 0 THEN <<>> ELSE ss[1] \o Flatten(Tail(ss))

\* an aggregator that empties `records` at the start of every channel
AggregatorResettingRecords(freqs, times, psd) ==
    LET pairs == [n \in 1..(Len(psd) * Len(BANDS)) |->
                     [item |-> psd[((n - 1) \div Len(BANDS)) + 1],
                      band |-> BANDS[((n - 1) % Len(BANDS)) + 1]]]
        each == [n \in DOMAIN pairs |->
                    BandRecords(freqs, times, pairs[n].item.channel,
                                pairs[n].item.Sxx_dB, pairs[n].band)]
        last == {n \in DOMAIN pairs : pairs[n].item = psd[Len(psd)]}
    IN  IF \E n \in DOMAIN each : each[n].exc # NoExc
        THEN [exc |-> IndexOutOfBounds, ret |-> <<>>]
        ELSE [exc |-> NoExc,
              ret |-> Flatten([n \in DOMAIN each |->
                                  IF n \in last THEN each[n].ret ELSE <<>>])]

\* compute_bandpowers_time_series(freqs, times, psd); psd is the sequence of
\* the dict's items, [channel, Sxx_dB]
compute_bandpowers_time_series(freqs, times, psd) ==
    LET pairs == [n \in 1..(Len(psd) * Len(BANDS)) |->
                     [item |-> psd[((n - 1) \div Len(BANDS)) + 1],
                      band |-> BANDS[((n - 1) % Len(BANDS)) + 1]]]
        each == [n \in DOMAIN pairs |->
                    BandRecords(freqs, times, pairs[n].item.channel,
                                pairs[n].item.Sxx_dB, pairs[n].band)]
    IN  IF \E n \in DOMAIN each : each[n].exc # NoExc
        THEN [exc |-> IndexOutOfBounds, ret |-> <<>>]
        ELSE [exc |-> NoExc, ret |-> Flatten([n \in DOMAIN each |-> each[n].ret])]

(***************************************************************************)
(* The spectrograms of the model: a frequency axis of up to MaxBins bin    *)
(* centres, up to MaxFrames frames, AF7 of the shape of the axes and AF8   *)
(* of any shape.                                                           *)
(***************************************************************************)
BinCentres == {0, 2, 4, 8, 9, 201}

Axes ==
    UNION {{f \in [1..n -> BinCentres] : \A i, j \in 1..n : i < j => f[i] < f[j]} :
              n \in 0..MaxBins}

FrameTimes == {[j \in 1..n |-> j - 1] : n \in 1..MaxFrames}

Spectrogram(family, r, c) ==
    [shape |-> <<r, c>>,
     dB |-> [k \in 1..r |-> [j \in 1..c |->
                CASE family = "flat0" -> 0
                  [] family = "flat10" -> 10
                  [] family = "graded" -> 10 * ((k + j) % 3) - 10]]]

Families == {"flat0", "flat10", "graded"}

PsdInputs ==
    {[freqs |-> freqs, times |-> times,
      psd |-> <<[channel |-> "AF7",
                 Sxx_dB |-> Spectrogram(f1, Len(freqs), Len(times))],
                [channel |-> "AF8", Sxx_dB |-> Spectrogram(f2, r, c)]>>] :
        freqs \in Axes, times \in FrameTimes, f1 \in Families, f2 \in Families,
        r \in 0..MaxBins, c \in 0..MaxFrames}

ComputeBandpowersTimeSeries ==
    /\ mm_pc = "idle"
    /\ LET outcome == compute_bandpowers_time_series(mm_csv.freqs, mm_csv.times,
                                                     mm_csv.psd)
       IN  /\ mm_pc' = "compute_bandpowers_time_series"
           /\ mm_exc' = outcome.exc
           /\ mm_ret' = outcome.ret
           /\ UNCHANGED <<mm_csv, mm_args, mm_files>>

PsdInit ==
    /\ mm_csv \in PsdInputs
    /\ mm_pc = "idle"
    /\ mm_args = <<>>
    /\ mm_ret = <<>>
    /\ mm_exc = NoExc
    /\ mm_files = NoFiles

\* the band-power aggregator on every spectrogram of the model
SpecPsd == PsdInit /\ [][ComputeBandpowersTimeSeries]_vars

Aggregated == mm_pc = "compute_bandpowers_time_series" /\ mm_exc = NoExc

\* the spectrogram passed for a channel
SxxOf(ch) ==
    LET n == CHOOSE n \in DOMAIN mm_csv.psd : mm_csv.psd[n].channel = ch
    IN  mm_csv.psd[n].Sxx_dB

BandNamed(name) == CHOOSE b \in Range(BANDS) : b.band = name

\* the bin indices whose centre lies in [fmin, fmax], both ends included
BinsWithin(b) ==
    {k \in DOMAIN mm_csv.freqs : b.fmin <= mm_csv.freqs[k] /\ mm_csv.freqs[k] <= b.fmax}

\* the linear power of the bins `bins` of a spectrogram at frame j
RECURSIVE LinearSum(_, _, _)
LinearSum(Sxx_dB, bins, j) ==
    IF bins = {} THEN FromInt(0)
    ELSE LET k == CHOOSE k \in bins : TRUE
         IN  RAdd(Linear(Sxx_dB.dB[k][j]), LinearSum(Sxx_dB, bins \ {k}, j))

\* every psd entry has one row per bin centre and one column per frame time
ShapesAgree ==
    \A n \in DOMAIN mm_csv.psd :
        mm_csv.psd[n].Sxx_dB.shape = <<Len(mm_csv.freqs), Len(mm_csv.times)>>

\* C11: every reported power is log10(S + 1e-12), S being the sum, over the
\* bins whose centre lies in the band (both bounds inclusive), of the linear
\* power 10^(dB/10) of the record's channel at the record's frame.
C11_PowerIsLogOfLinearSum ==
    Aggregated =>
        \A n \in DOMAIN mm_ret :
            LET rec == mm_ret[n]
                j == CHOOSE j \in DOMAIN mm_csv.times : mm_csv.times[j] = rec.time
            IN  /\ rec.power.plus = "1e-12"
                /\ rec.power.log10_of
                      = LinearSum(SxxOf(rec.channel), BinsWithin(BandNamed(rec.band)), j)

\* bins at 2 and 4 Hz, 10 dB and -10 dB in AF7 at the first frame: delta is
\* reported as log10(10 + 1/10 + 1e-12)
C11_Witness ==
    /\ Aggregated
    /\ mm_csv.freqs = <<2, 4>>
    /\ SxxOf("AF7").dB[1][1] = 10
    /\ SxxOf("AF7").dB[2][1] = -10
    /\ mm_ret[1] = [time |-> 0, channel |-> "AF7", band |-> "delta",
                    power |-> Log10Floored(Rat(101, 10))]

\* C12: a band without any bin centre in its interval raises nothing and has no
\* record; every other band has its record for every channel and frame.
C12_EmptyBandIsSkipped ==
    (mm_pc = "compute_bandpowers_time_series" /\ ShapesAgree) =>
        /\ mm_exc = NoExc
        /\ \A b \in Range(BANDS) :
              IF BinsWithin(b) = {}
              THEN \A n \in DOMAIN mm_ret : mm_ret[n].band # b.band
              ELSE \A i \in DOMAIN mm_csv.psd, j \in DOMAIN mm_csv.times :
                      \E n \in DOMAIN mm_ret :
                          /\ mm_ret[n].band = b.band
                          /\ mm_ret[n].channel = mm_csv.psd[i].channel
                          /\ mm_ret[n].time = mm_csv.times[j]

\* an axis with bins at 0 and 2 Hz only: delta is reported for both channels,
\* no other band is, and nothing was raised
C12_Witness ==
    /\ Aggregated
    /\ ShapesAgree
    /\ mm_csv.freqs = <<0, 2>>
    /\ Len(mm_csv.times) = 2
    /\ {mm_ret[n].band : n \in DOMAIN mm_ret} = {"delta"}
    /\ Len(mm_ret) = 4

\* every bin centre of the axis lies in exactly one band of the catalogue
CatalogueTilesAxis ==
    \A k \in DOMAIN mm_csv.freqs :
        Cardinality({b \in Range(BANDS) : k \in BinsWithin(b)}) = 1

\* the sum over the bands of the linear power reported for a channel and time
ReportedTotal(ch, t) ==
    SumSeq([n \in DOMAIN mm_ret |->
               IF mm_ret[n].channel = ch /\ mm_ret[n].time = t
               THEN mm_ret[n].power.log10_of
               ELSE FromInt(0)])

\* C13: when the band catalogue tiles the frequency axis (every bin centre in
\* exactly one band), the linear band powers of a channel add up, at every
\* frame, to the total linear power of all its bins.
C13_BandsSumToTotal ==
    (Aggregated /\ ShapesAgree /\ CatalogueTilesAxis) =>
        \A i \in DOMAIN mm_csv.psd, j \in DOMAIN mm_csv.times :
            ReportedTotal(mm_csv.psd[i].channel, mm_csv.times[j])
                = LinearSum(mm_csv.psd[i].Sxx_dB, DOMAIN mm_csv.freqs, j)

\* bins at 2 Hz (delta) and 8 Hz (theta), -10 dB and 0 dB in AF8 at the second
\* frame: the two bands add up to 1/10 + 1
C13_Witness ==
    /\ Aggregated
    /\ ShapesAgree
    /\ mm_csv.freqs = <<2, 8>>
    /\ Len(mm_csv.times) = 2
    /\ SxxOf("AF8").dB[1][2] = -10
    /\ SxxOf("AF8").dB[2][2] = 0
    /\ ReportedTotal("AF8", 1) = Rat(11, 10)

\* C14: when the spectrogram of some channel does not have the frequency and
\* time axes passed for all channels, the computation raises.
C14_AxisMismatchIsFatal ==
    (mm_pc = "compute_bandpowers_time_series" /\ ~ShapesAgree) => mm_exc # NoExc

(***************************************************************************)
(* processing/normalize.py.  The baseline statistics are float64           *)
(* arithmetic and the code compares a computed standard deviation with 0,  *)
(* so here rounding is modelled: a float is a decimal floating-point       *)
(* number of FloatDigits significant digits and every operation rounds its *)
(* exact result to the nearest one, ties to even.  The square root is not  *)
(* computed: a standard deviation is kept as its variance, and is 0        *)
(* exactly when the variance is.  Timestamps are compared exactly.         *)
(***************************************************************************)
FloatDigits == 2
MaxRestRows == 4

PowTen(e) == IF e >= 0 THEN FromInt(Pow10(e)) ELSE Rat(1, Pow10(-e))

\* the nearest integer to q >= 0, ties to even
RoundHalfEven(q) ==
    LET f == q[1] \div q[2]
        twice == 2 * (q[1] - f * q[2])
    IN  IF twice > q[2] THEN f + 1
        ELSE IF twice < q[2] THEN f
        ELSE IF f % 2 = 0 THEN f ELSE f + 1

\* the decimal exponent e of a > 0: 10^(e-1) <= a < 10^e
RECURSIVE ExponentFrom(_, _)
ExponentFrom(a, e) ==
    IF e >= 1
    THEN IF a[1] < Pow10(e) * a[2] THEN e ELSE ExponentFrom(a, e + 1)
    ELSE IF a[2] <= a[1] * Pow10(1 - e) THEN e ELSE ExponentFrom(a, e - 1)

Exponent(a) == IF a[1] >= a[2] THEN ExponentFrom(a, 1) ELSE ExponentFrom(a, 0)

\* the float nearest to the real x
Fl(x) ==
    IF x[1] = 0 THEN x
    ELSE LET a == <<Abs(x[1]), x[2]>>
             e == Exponent(a)
             m == RoundHalfEven(RMul(a, PowTen(FloatDigits - e)))
             r == RMul(FromInt(m), PowTen(e - FloatDigits))
         IN  IF x[1] < 0 THEN <<-r[1], r[2]>> ELSE r

FAdd(x, y) == Fl(RAdd(x, y))
FSub(x, y) == Fl(RSub(x, y))
FMul(x, y) == Fl(RMul(x, y))
FDiv(x, y) == Fl(RDiv(x, y))

\* values.sum(): the samples added one after the other
RECURSIVE FSum(_)
FSum(vals) ==
    IF Len(vals) = 0 THEN FromInt(0)
    ELSE FAdd(FSum(SubSeq(vals, 1, Len(vals) - 1)), vals[Len(vals)])

\* Series.mean(): missing values skipped, NaN when none is left
FMean(column) ==
    LET vals == DropNaN(column) IN
    IF Len(vals) = 0 THEN NaN ELSE FDiv(FSum(vals), FromInt(Len(vals)))

\* the variance with divisor N - 1
SampleVariance(column) ==
    LET vals == DropNaN(column) IN
    IF Len(vals) <= 1 THEN NaN
    ELSE LET avg == FDiv(FSum(vals), FromInt(Len(vals)))
             sqr == [i \in DOMAIN vals |->
                        FMul(FSub(avg, vals[i]), FSub(avg, vals[i]))]
         IN  FDiv(FSum(sqr), FromInt(Len(vals) - 1))

\* Series.std(ddof=0) squared: the mean of the squared deviations from the mean
Variance(column) ==
    LET vals == DropNaN(column) IN
    IF Len(vals) = 0 THEN NaN
    ELSE LET avg == FDiv(FSum(vals), FromInt(Len(vals)))
             sqr == [i \in DOMAIN vals |->
                        FMul(FSub(avg, vals[i]), FSub(avg, vals[i]))]
         IN  FDiv(FSum(sqr), FromInt(Len(vals)))

TIMESTAMP_COLUMNS == {"TimeStamp", "unix_ms", "unix_ts", "lsl_unix_ts"}

MissingChannels(missing) ==
    [type |-> "ValueError", msg |-> "Experimental CSV missing channels",
     missing |-> missing]

RestEmpty ==
    [type |-> "ValueError", msg |-> "Rest EEG empty after culling - check time column."]

NotInIndex == [type |-> "KeyError", msg |-> "not in index"]

RECURSIVE SeqMin(_)
SeqMin(vals) ==
    IF Len(vals) = 1 THEN vals[1]
    ELSE LET m == SeqMin(Tail(vals)) IN IF RLess(vals[1], m) THEN vals[1] ELSE m

RECURSIVE SeqMax(_)
SeqMax(vals) ==
    IF Len(vals) = 1 THEN vals[1]
    ELSE LET m == SeqMax(Tail(vals)) IN IF RLess(m, vals[1]) THEN vals[1] ELSE m

\* a sanity check that finds nothing missing
NothingMissing(rest_df, exp_df) == {}

\* channel_cols, less the columns of the experimental file
Missing(rest_df, exp_df) ==
    (DOMAIN rest_df[1] \ TIMESTAMP_COLUMNS) \ DOMAIN exp_df[1]

\* rest_mid: the rows of rest_df with t_start <= ts_col <= t_end
Cull(rest_df, ts_col, start_buffer, end_buffer) ==
    LET ts == DropNaN(Column(rest_df, ts_col))
        t_start == RAdd(SeqMin(ts), FromInt(start_buffer))
        t_end == RSub(SeqMax(ts), FromInt(end_buffer))
    IN  SelectSeq(rest_df, LAMBDA row :
            /\ ~IsNaN(row[ts_col])
            /\ RLeq(t_start, row[ts_col])
            /\ RLeq(row[ts_col], t_end))

\* (exp_df[c] - baseline_mean[c]) / baseline_std[c] for one sample, the
\* deviation kept by its square
Normalized(raw, mean, variance) ==
    IF IsNaN(raw) \/ IsNaN(mean) \/ IsNaN(variance)
    THEN NaN
    ELSE [minus_mean |-> FSub(raw, mean), over_sqrt_of |-> variance]

\* os.path.basename(exp_src) without its extension, + '_normalized.csv'
NormalizedPath == ("exp.csv" :> "exp_normalized.csv")

\* rest_mid[channel_cols].mean()
BaselineMean(rest_mid, channel_cols) ==
    [c \in channel_cols |-> FMean(Column(rest_mid, c))]

\* rest_mid[channel_cols].std(ddof=0), kept squared, after
\* baseline_std[baseline_std == 0] = np.nan
BaselineStd(rest_mid, channel_cols) ==
    [c \in channel_cols |->
        LET variance == Variance(Column(rest_mid, c))
        IN  IF variance = FromInt(0) THEN NaN ELSE variance]

\* exp_norm: exp_df with its channel_cols standardised
ExpNorm(exp_df, channel_cols, baseline_mean, baseline_std) ==
    [i \in DOMAIN exp_df |->
        [c \in DOMAIN exp_df[i] |->
            IF c \in channel_cols
            THEN Normalized(exp_df[i][c], baseline_mean[c], baseline_std[c])
            ELSE exp_df[i][c]]]

\* normalize(rest_src, exp_src, ts_col, start_buffer, end_buffer) on the two
\* files read
normalize(rest_df, exp_df, ts_col, start_buffer, end_buffer) ==
    LET channel_cols == DOMAIN rest_df[1] \ TIMESTAMP_COLUMNS
        missing == Missing(rest_df, exp_df)
    IN
    IF missing # {} THEN Raise(MissingChannels(missing))
    ELSE
    LET rest_mid == Cull(rest_df, ts_col, start_buffer, end_buffer) IN
    IF Len(rest_mid) = 0 THEN Raise(RestEmpty)
    ELSE IF ~(channel_cols \subseteq DOMAIN exp_df[1]) THEN Raise(NotInIndex)
    ELSE
    LET baseline_mean == BaselineMean(rest_mid, channel_cols)
        baseline_std == BaselineStd(rest_mid, channel_cols)
        exp_norm == ExpNorm(exp_df, channel_cols, baseline_mean, baseline_std)
    IN  [exc |-> NoExc,
         ret |-> NormalizedPath["exp.csv"],
         files |-> (NormalizedPath["exp.csv"] :> exp_norm)]

(***************************************************************************)
(* The recordings of the model: a rest file of up to MaxRestRows rows, one *)
(* per second, and an experimental file of two rows.                       *)
(***************************************************************************)
RestShape(shape, i) ==
    CASE shape = "steady" -> FromInt(1)
      [] shape = "steady34" -> Rat(34, 100)
      [] shape = "varying" -> FromInt(1 + (i % 2))
      [] shape = "gappy" -> IF i % 2 = 0 THEN NaN ELSE FromInt(i)

RestFile(n, tp9, af7) ==
    [i \in 1..n |->
        ("unix_ms" :> FromInt(1000 * (i - 1))) @@ ("lsl_unix_ts" :> FromInt(i - 1))
        @@ ("TP9" :> RestShape(tp9, i)) @@ ("AF7" :> RestShape(af7, i))]

ExpLayouts ==
    {{"unix_ms", "lsl_unix_ts", "TP9", "AF7"},
     {"unix_ms", "lsl_unix_ts", "TP9", "AF7", "Marker"},
     {"unix_ms", "lsl_unix_ts", "TP9"}}

ExpFile(columns) ==
    [i \in 1..2 |->
        [c \in columns |->
            CASE c = "unix_ms" -> FromInt(1000 * (i + 9))
              [] c = "lsl_unix_ts" -> FromInt(i + 9)
              [] c = "TP9" -> Rat(34 * i, 100)
              [] c = "AF7" -> IF i = 1 THEN FromInt(3) ELSE NaN
              [] c = "Marker" -> FromInt(7)]]

NormalizeInputs ==
    {[rest |-> RestFile(n, tp9, af7), exp |-> ExpFile(columns)] :
        n \in 1..MaxRestRows,
        tp9 \in {"steady", "steady34", "varying"},
        af7 \in {"steady", "varying", "gappy"},
        columns \in ExpLayouts}

Buffers == {0, 1, 2}

Normalize ==
    /\ mm_pc = "idle"
    /\ \E ts_col \in {"lsl_unix_ts", "unix_ms"}, start_buffer \in Buffers,
          end_buffer \in Buffers :
          LET outcome == normalize(mm_csv.rest, mm_csv.exp, ts_col, start_buffer,
                                   end_buffer)
          IN  /\ mm_pc' = "normalize"
              /\ mm_args' = [ts_col |-> ts_col, start_buffer |-> start_buffer,
                             end_buffer |-> end_buffer]
              /\ mm_exc' = outcome.exc
              /\ mm_ret' = outcome.ret
              /\ mm_files' = outcome.files
              /\ UNCHANGED mm_csv

NormalizeInit ==
    /\ mm_csv \in NormalizeInputs
    /\ mm_pc = "idle"
    /\ mm_args = <<>>
    /\ mm_ret = <<>>
    /\ mm_exc = NoExc
    /\ mm_files = NoFiles

\* normalize on every pair of recordings of the model
SpecNormalize == NormalizeInit /\ [][Normalize]_vars

(***************************************************************************)
(* Claims on normalize.                                                    *)
(***************************************************************************)
Normalised == mm_pc = "normalize"

ChannelCols == DOMAIN mm_csv.rest[1] \ TIMESTAMP_COLUMNS

AllMatched == ChannelCols \subseteq DOMAIN mm_csv.exp[1]

\* the instant of a reference sample in seconds, read from the chosen column
Seconds(row, ts_col) ==
    IF ts_col = "unix_ms" THEN RDiv(row[ts_col], FromInt(1000)) ELSE row[ts_col]

\* the reference samples at least start_buffer seconds after the first and at
\* least end_buffer seconds before the last
RetainedBySeconds(rest_df, ts_col, start_buffer, end_buffer) ==
    LET secs == [i \in DOMAIN rest_df |-> Seconds(rest_df[i], ts_col)]
        first == SeqMin(secs)
        last == SeqMax(secs)
    IN  SelectSeq(rest_df, LAMBDA row :
            /\ RLeq(RAdd(first, FromInt(start_buffer)), Seconds(row, ts_col))
            /\ RLeq(Seconds(row, ts_col), RSub(last, FromInt(end_buffer))))

\* C15: the baseline statistics come from exactly the reference samples that
\* are not within start_buffer seconds of the first reference timestamp nor
\* within end_buffer seconds of the last, whichever timestamp column is
\* selected, and normalize fails when no reference sample remains.
C15_CullsBySeconds ==
    (Normalised /\ AllMatched) =>
        LET kept == RetainedBySeconds(mm_csv.rest, mm_args.ts_col,
                                      mm_args.start_buffer, mm_args.end_buffer)
        IN  IF Len(kept) = 0
            THEN mm_exc = RestEmpty /\ mm_files = NoFiles
            ELSE /\ mm_exc = NoExc
                 /\ mm_files[mm_ret] =
                        ExpNorm(mm_csv.exp, ChannelCols,
                                BaselineMean(kept, ChannelCols),
                                BaselineStd(kept, ChannelCols))

\* the same on the calls that select the column of seconds
CullsBySecondsOnLsl ==
    (Normalised /\ mm_args.ts_col = "lsl_unix_ts") => C15_CullsBySeconds

\* C16: when a non-timestamp column of the reference recording is absent
\* from the target, normalize fails with an error naming the missing
\* channels, whatever the culling would leave, and writes no output file.
C16_MissingChannelsIsFatal ==
    (Normalised /\ ~AllMatched) =>
        /\ mm_exc = MissingChannels(ChannelCols \ DOMAIN mm_csv.exp[1])
        /\ mm_exc.missing # {}
        /\ mm_files = NoFiles

\* a call with AF7 absent from the target and buffers that leave no reference
\* sample: the missing channel is what is reported
C16_Witness ==
    /\ Normalised
    /\ "AF7" \notin DOMAIN mm_csv.exp[1]
    /\ Len(Cull(mm_csv.rest, mm_args.ts_col, mm_args.start_buffer,
                mm_args.end_buffer)) = 0
    /\ mm_exc.type = "ValueError"
    /\ mm_exc.msg = "Experimental CSV missing channels"
    /\ mm_exc.missing = {"AF7"}
    /\ mm_files = NoFiles

\* the reference window normalize computed its statistics from
RestMid ==
    Cull(mm_csv.rest, mm_args.ts_col, mm_args.start_buffer, mm_args.end_buffer)

Completed == Normalised /\ AllMatched /\ Len(RestMid) > 0

\* every sample of the column is present and they are all the same value
Identical(column) ==
    /\ \A i \in DOMAIN column : ~IsNaN(column[i])
    /\ \A i, j \in DOMAIN column : column[i] = column[j]

WhollyMissing(df, c) == \A i \in DOMAIN df : IsNaN(df[i][c])

\* C17: when a reference channel has identical values in every retained
\* sample, normalize completes without raising and every sample of that
\* channel in the normalized output is a missing value; a channel whose
\* baseline deviation is not zero keeps a value wherever the target has one.
C17_ZeroStdYieldsMissing ==
    Completed =>
        /\ mm_exc = NoExc
        /\ \A c \in ChannelCols :
              IF Identical(Column(RestMid, c))
              THEN WhollyMissing(mm_files[mm_ret], c)
              ELSE \A i \in DOMAIN mm_csv.exp :
                      (/\ ~IsNaN(mm_csv.exp[i][c])
                       /\ ~IsNaN(Variance(Column(RestMid, c)))
                       /\ Variance(Column(RestMid, c)) # FromInt(0))
                          => ~IsNaN(mm_files[mm_ret][i][c])

\* the same for the channels whose mean comes out as the repeated value itself
ZeroStdYieldsMissingWhenMeanIsExact ==
    Completed =>
        /\ mm_exc = NoExc
        /\ \A c \in ChannelCols :
              (/\ Identical(Column(RestMid, c))
               /\ FMean(Column(RestMid, c)) = RestMid[1][c])
                  => WhollyMissing(mm_files[mm_ret], c)

\* the mean of the squared deviations of the values present from their mean:
\* the population variance, of divisor N
MeanSquaredDeviation(column) ==
    LET vals == DropNaN(column)
        N == Len(vals)
        mean == FDiv(FSum(vals), FromInt(N))
        sqr == [i \in 1..N |-> FMul(FSub(mean, vals[i]), FSub(mean, vals[i]))]
    IN  IF N = 0 THEN NaN ELSE FDiv(FSum(sqr), FromInt(N))

\* (raw - baseline_mean) / baseline_std for one target sample of channel c,
\* missing when a term is missing or the deviation is zero
ZScore(raw, c) ==
    LET window == Column(RestMid, c)
        msd == MeanSquaredDeviation(window)
    IN  IF IsNaN(raw) \/ IsNaN(msd) \/ msd = FromInt(0)
        THEN NaN
        ELSE [minus_mean |-> FSub(raw, FMean(window)), over_sqrt_of |-> msd]

\* C18: the normalized output has the rows and columns of the target; every
\* matched channel value is (raw - baseline_mean) / baseline_std, with
\* baseline_std the population standard deviation (divisor N) of the culled
\* reference window; every other column of the target is unchanged.
C18_OutputIsZScoredTarget ==
    Completed =>
        LET out == mm_files[mm_ret]
            exp_df == mm_csv.exp
        IN  /\ DOMAIN out = DOMAIN exp_df
            /\ \A i \in DOMAIN exp_df :
                  /\ DOMAIN out[i] = DOMAIN exp_df[i]
                  /\ \A c \in DOMAIN exp_df[i] :
                        out[i][c] = IF c \in ChannelCols
                                    THEN ZScore(exp_df[i][c], c)
                                    ELSE exp_df[i][c]

\* a target with a column the reference lacks, normalized on a window of
\* several samples whose TP9 values differ
C18_Witness ==
    /\ Completed
    /\ Len(RestMid) >= 2
    /\ ~Identical(Column(RestMid, "TP9"))
    /\ "Marker" \in DOMAIN mm_csv.exp[1]
    /\ mm_files[mm_ret][1]["Marker"] = FromInt(7)
    /\ mm_files[mm_ret][1]["lsl_unix_ts"] = FromInt(10)
    /\ ~IsNaN(mm_files[mm_ret][1]["TP9"])
    /\ mm_files[mm_ret][1]["TP9"].over_sqrt_of # FromInt(0)

(***************************************************************************)
(* Failures across the pipeline.  What a caller's except clause selects on *)
(* is the class of the exception raised.                                   *)
(***************************************************************************)
\* the failures on well-formed but insufficient data: fewer than two
\* timestamps, no reference sample left after culling
InsufficientDataErrors == {NotEnough, RestEmpty}

\* the failures on malformed input: an unparsable timestamp, a missing channel
\* column, a channel with no value at all
MalformedInputErrors ==
    {BadFormat, InterpEmpty}
    \cup {MissingChannel[ch] : ch \in Range(EEG_CHANNELS)}
    \cup {MissingChannels(missing) : missing \in (SUBSET {"TP9", "AF7"}) \ {{}}}

\* the failure of the call was one of insufficient data: every reference
\* channel is in the target and the culling left no sample
InsufficientData == Normalised /\ AllMatched /\ Len(RestMid) = 0

\* the failure of the call was one of malformed input: a reference channel is
\* absent from the target
MalformedInput == Normalised /\ ~AllMatched

\* C19: an insufficient-data failure is reported with an error of a class
\* that no malformed-input failure is reported with, and conversely, so that
\* a caller can tell the two apart.
C19_InsufficientDataIsDistinct ==
    /\ InsufficientData =>
          /\ mm_exc \in InsufficientDataErrors
          /\ \A e \in MalformedInputErrors : e.type # mm_exc.type
    /\ MalformedInput =>
          /\ mm_exc \in MalformedInputErrors
          /\ \A e \in InsufficientDataErrors : e.type # mm_exc.type

\* the two kinds of failure are reported with different errors, the message
\* taken into account
FailuresDifferByMessage ==
    /\ InsufficientData =>
          /\ mm_exc \in InsufficientDataErrors
          /\ mm_exc \notin MalformedInputErrors
          /\ \A e \in MalformedInputErrors : e.msg # mm_exc.msg
    /\ MalformedInput =>
          /\ mm_exc \in MalformedInputErrors
          /\ \A e \in InsufficientDataErrors : e.msg # mm_exc.msg

(***************************************************************************)
(* The order of the steps of filter_eeg.                                   *)
(***************************************************************************)
\* the channel column as filter_eeg reads it, gaps filled by interpolation
Interpolated(ch) ==
    interpolate_nans([i \in DOMAIN mm_csv |-> AsFloat(mm_csv[i][ch])]).ret

\* the interpolated channel less its own mean
Demeaned(ch) ==
    LET x == Interpolated(ch)
        mean == RDiv(SumSeq(x), FromInt(Len(x)))
    IN  [i \in DOMAIN x |-> RSub(x[i], mean)]

\* whether the caller asked for the band-pass: what was passed, no when
\* nothing was
BandpassAsked == mm_args.passed = <<TRUE>>

\* the filters the channel is to go through, in order
StagesAsked ==
    IF BandpassAsked
    THEN <<iirnotch(NOTCH_FREQ, NOTCH_Q, FS),
           butter(BANDPASS_ORDER, <<BANDPASS_LOW, BANDPASS_HIGH>>, FS, "band")>>
    ELSE <<iirnotch(NOTCH_FREQ, NOTCH_Q, FS)>>

Flat(x) == \A i \in DOMAIN x : x[i] = FromInt(0)

\* the call reaches the channel loop: every channel is in the file and has a
\* value
Filterable ==
    /\ CallReachesFile
    /\ Range(EEG_CHANNELS) \subseteq DOMAIN mm_csv[1]
    /\ \A ch \in Range(EEG_CHANNELS) : ~AllMissing(ch)

\* C20: each channel goes through NaN interpolation, then the subtraction of
\* its own mean, then the zero-phase notch, then the zero-phase band-pass;
\* the band-pass runs exactly when apply_bandpass is true, and it is false
\* when the caller passes nothing.
C20_StagesInOrder ==
    /\ Filtered =>
          \A ch \in Range(EEG_CHANNELS) :
              ~Flat(Demeaned(ch)) =>
                  \A i \in DOMAIN mm_csv :
                      /\ FilterOutput[i][ch].x = Demeaned(ch)
                      /\ FilterOutput[i][ch].filters = StagesAsked
                      /\ FilterOutput[i][ch].i = i
    /\ (Filterable /\ Len(mm_csv) = BandPadLen) =>
          (mm_exc = PadLenError <=> BandpassAsked)

\* a call that passes nothing for apply_bandpass, on a file whose TP9 has
\* gaps: the channel is interpolated, de-meaned and notched, and no more
C20_Witness ==
    /\ Filtered
    /\ mm_args.passed = <<>>
    /\ \E i \in DOMAIN mm_csv : IsNaN(mm_csv[i]["TP9"])
    /\ ~Flat(Demeaned("TP9"))
    /\ Len(FilterOutput[1]["TP9"].filters) = 1
    /\ FilterOutput[1]["TP9"].filters[1].design = "iirnotch"
    /\ FilterOutput[1]["TP9"].x = Demeaned("TP9")

(***************************************************************************)
(* interpolate_nans on its own: every channel of up to MaxChannelLen       *)
(* samples over a missing value and two levels.                            *)
(***************************************************************************)
MaxChannelLen == 4

SampleValues == {NaN, FromInt(1), FromInt(4)}

Channels ==
    UNION {[1..n -> SampleValues] : n \in 1..MaxChannelLen}

InterpolateNans ==
    /\ mm_pc = "idle"
    /\ LET outcome == interpolate_nans(mm_csv)
       IN  /\ mm_pc' = "interpolate_nans"
           /\ mm_args' = [x |-> mm_csv]
           /\ mm_exc' = outcome.exc
           /\ mm_ret' = outcome.ret
           /\ UNCHANGED <<mm_csv, mm_files>>

InterpInit ==
    /\ mm_csv \in Channels
    /\ mm_pc = "idle"
    /\ mm_args = <<>>
    /\ mm_ret = <<>>
    /\ mm_exc = NoExc
    /\ mm_files = NoFiles

\* interpolate_nans on every channel of the model
SpecInterp == InterpInit /\ [][InterpolateNans]_vars

ValidSamples(x) == {i \in DOMAIN x : ~IsNaN(x[i])}

\* the point of index p on the line through the samples of index lo and hi
OnChord(x, lo, hi, p) ==
    RAdd(x[lo], RDiv(RMul(RSub(x[hi], x[lo]), FromInt(p - lo)), FromInt(hi - lo)))

\* C21: on a channel with at least one valid sample, interpolate_nans
\* returns a channel of the same length with no missing sample, in which
\* every valid sample is unchanged and every missing sample lies on the line,
\* by sample index, between its nearest valid neighbour on each side; a
\* missing sample with valid samples on one side only takes the value of the
\* nearest of them.
C21_GapsAreInterpolated ==
    (mm_pc = "interpolate_nans" /\ ValidSamples(mm_args.x) # {}) =>
        LET x == mm_args.x
            valid == ValidSamples(x)
        IN  /\ mm_exc = NoExc
            /\ Len(mm_ret) = Len(x)
            /\ \A p \in DOMAIN x :
                  LET below == {v \in valid : v < p}
                      above == {v \in valid : v > p}
                  IN  /\ ~IsNaN(mm_ret[p])
                      /\ p \in valid => mm_ret[p] = x[p]
                      /\ (p \notin valid /\ below # {} /\ above # {}) =>
                            mm_ret[p] = OnChord(x, Max(below), Min(above), p)
                      /\ (p \notin valid /\ below = {}) => mm_ret[p] = x[Min(above)]
                      /\ (p \notin valid /\ above = {}) => mm_ret[p] = x[Max(below)]

\* a channel 1, gap, gap, 4: the gap is filled with 2 and 3
C21_Witness ==
    /\ mm_pc = "interpolate_nans"
    /\ mm_args.x = <<FromInt(1), NaN, NaN, FromInt(4)>>
    /\ mm_ret = <<FromInt(1), FromInt(2), FromInt(3), FromInt(4)>>

(***************************************************************************)
(* The keys of the band-power table.                                       *)
(***************************************************************************)
\* the (time, channel, band) combinations to report: every frame time, every
\* channel passed, every band with a bin centre on the frequency axis
KeysDue ==
    {[time |-> mm_csv.times[j], channel |-> mm_csv.psd[n].channel, band |-> b.band] :
        j \in DOMAIN mm_csv.times, n \in DOMAIN mm_csv.psd,
        b \in {b \in Range(BANDS) : BinsWithin(b) # {}}}

KeyOf(rec) == [time |-> rec.time, channel |-> rec.channel, band |-> rec.band]

\* C22: when the spectrograms have the axes passed, the band-power table has
\* exactly one record for each combination of channel, band with at least
\* one matching frequency bin, and time frame: no key twice, none missing,
\* none besides.
C22_OneRecordPerKey ==
    (Aggregated /\ ShapesAgree) =>
        /\ \A key \in KeysDue :
              Cardinality({n \in DOMAIN mm_ret : KeyOf(mm_ret[n]) = key}) = 1
        /\ \A n \in DOMAIN mm_ret : KeyOf(mm_ret[n]) \in KeysDue

\* two bins in two bands, two frames, two channels: eight records
C22_Witness ==
    /\ Aggregated
    /\ ShapesAgree
    /\ mm_csv.freqs = <<2, 9>>
    /\ Len(mm_csv.times) = 2
    /\ Cardinality(KeysDue) = 8
    /\ Len(mm_ret) = 8

\* the same whatever the shape of the spectrograms
OneRecordPerKeyOnAnyShape ==
    Aggregated =>
        \A key \in KeysDue :
            Cardinality({n \in DOMAIN mm_ret : KeyOf(mm_ret[n]) = key}) = 1

(***************************************************************************)
(* filter_eeg on two recordings that agree on TP9 and differ in the other  *)
(* channels only, called with the same arguments.                          *)
(***************************************************************************)
PairLayout == {"unix_ms", "lsl_unix_ts"} \cup Range(EEG_CHANNELS)

EegPairs ==
    {[a |-> EegFile(n, PairLayout, tp9, af7_a, others_a),
      b |-> EegFile(n, PairLayout, tp9, af7_b, others_b)] :
        n \in {NotchPadLen + 1, MaxEegRows},
        tp9 \in {"steady", "ramp", "gappy", "counts"},
        af7_a \in {"ramp", "counts"}, others_a \in {"ramp", "counts"},
        af7_b \in {"ramp", "counts", "blank"}, others_b \in {"ramp", "counts"}}

FilterEegOnBoth ==
    /\ mm_pc = "idle"
    /\ \E passed \in CallerArguments :
          LET apply_bandpass == IF Len(passed) = 0 THEN ApplyBandpassDefault
                                ELSE passed[1]
              outcome_a == filter_eeg("EEG.csv" :> mm_csv.a, "EEG.csv", apply_bandpass)
              outcome_b == filter_eeg("EEG.csv" :> mm_csv.b, "EEG.csv", apply_bandpass)
          IN  /\ mm_pc' = "filter_eeg"
              /\ mm_args' = [eeg_csv_path |-> "EEG.csv", passed |-> passed,
                             apply_bandpass |-> apply_bandpass]
              /\ mm_exc' = [a |-> outcome_a.exc, b |-> outcome_b.exc]
              /\ mm_ret' = [a |-> outcome_a.ret, b |-> outcome_b.ret]
              /\ mm_files' = [a |-> outcome_a.files, b |-> outcome_b.files]
              /\ UNCHANGED mm_csv

PairInit ==
    /\ mm_csv \in EegPairs
    /\ mm_pc = "idle"
    /\ mm_args = <<>>
    /\ mm_ret = <<>>
    /\ mm_exc = NoExc
    /\ mm_files = NoFiles

\* the filter stage on every pair of recordings of the model
SpecPair == PairInit /\ [][FilterEegOnBoth]_vars

BothFiltered ==
    mm_pc = "filter_eeg" /\ mm_exc.a = NoExc /\ mm_exc.b = NoExc

\* the two recordings agree on channel c sample by sample
AgreeOn(c) == Column(mm_csv.a, c) = Column(mm_csv.b, c)

\* C23: for two recordings that agree on channel c and differ only in the
\* samples of other channels, filter_eeg writes the same filtered values for
\* channel c.
C23_ChannelsAreIndependent ==
    BothFiltered =>
        \A c \in Range(EEG_CHANNELS) :
            AgreeOn(c) =>
                Column(mm_files.a["EEG_filtered.csv"], c)
                    = Column(mm_files.b["EEG_filtered.csv"], c)

\* the same for the signal each channel's filters are applied to and for
\* the filters themselves, the type of the array they are stored in left
\* aside
SameSignalAndFilters ==
    BothFiltered =>
        \A c \in Range(EEG_CHANNELS) :
            (AgreeOn(c) /\ ~Flat(
                LET x == interpolate_nans([i \in DOMAIN mm_csv.a |->
                                              AsFloat(mm_csv.a[i][c])]).ret
                    mean == RDiv(SumSeq(x), FromInt(Len(x)))
                IN  [i \in DOMAIN x |-> RSub(x[i], mean)])) =>
                \A i \in DOMAIN mm_csv.a :
                    LET cell_a == mm_files.a["EEG_filtered.csv"][i][c]
                        cell_b == mm_files.b["EEG_filtered.csv"][i][c]
                    IN  cell_a.x = cell_b.x /\ cell_a.filters = cell_b.filters

(***************************************************************************)
(* record/record.py: one stream, its producer and consumer threads and the *)
(* main thread that sets stop_event.                                       *)
(*   mm_csv    the stream: whether resolve_byprop finds it, and how many   *)
(*             samples it has to deliver                                   *)
(*   mm_pc     the position of each thread                                 *)
(*   mm_args   the shared objects (stop_event, queue, viz_buffer), the     *)
(*             threads' locals (sample, row) and, as history, the rows     *)
(*             handed to Queue.put                                         *)
(*   mm_files  the CSV of the stream, header left out                      *)
(* A with viz_lock block is one step: the lock makes it so.  Samples are   *)
(* numbered in the order the inlet delivers them.                          *)
(***************************************************************************)
MaxStream == 3

VIS_WINDOW_SEC == 5
STREAM_RATES ==
    [EEG |-> 256, Accelerometer |-> 50, Gyroscope |-> 50, PPG |-> 64]

\* a bounded buffer that refuses the new sample when it is full
DequeAppendDroppingNewest(buffer, sample, maxlen) ==
    IF Len(buffer) < maxlen THEN Append(buffer, sample) ELSE buffer

\* deque(maxlen=maxlen).append(sample)
DequeAppend(buffer, sample, maxlen) ==
    IF Len(buffer) < maxlen THEN Append(buffer, sample)
    ELSE Append(Tail(buffer), sample)

\* maxlen = VIS_WINDOW_SEC * STREAM_RATES[stype]
VizMaxLen(stype) == VIS_WINDOW_SEC * STREAM_RATES[stype]

RecordInit ==
    /\ mm_csv \in [found : BOOLEAN, samples : 0..MaxStream]
    /\ mm_pc = [producer |-> "resolve", consumer |-> "open", main |-> "exec"]
    /\ mm_args = [stop_event |-> FALSE, queue |-> <<>>, viz_buffer |-> <<>>,
                  pulled |-> 0, sample |-> 0, row |-> 0, put |-> <<>>]
    /\ mm_ret = <<>>
    /\ mm_exc = NoExc
    /\ mm_files = NoFiles

\* streams = resolve_byprop(...); if not streams: return
ProducerResolve ==
    /\ mm_pc.producer = "resolve"
    /\ mm_pc' = [mm_pc EXCEPT !.producer = IF mm_csv.found THEN "check" ELSE "done"]
    /\ UNCHANGED <<mm_csv, mm_args, mm_ret, mm_exc, mm_files>>

\* a producer loop that does not look at stop_event
ProducerCheckWithoutStop ==
    /\ mm_pc.producer = "check"
    /\ mm_pc' = [mm_pc EXCEPT !.producer = "pull"]
    /\ UNCHANGED <<mm_csv, mm_args, mm_ret, mm_exc, mm_files>>

\* while not stop_event.is_set()
ProducerCheck ==
    /\ mm_pc.producer = "check"
    /\ mm_pc' = [mm_pc EXCEPT !.producer = IF mm_args.stop_event THEN "done"
                                           ELSE "pull"]
    /\ UNCHANGED <<mm_csv, mm_args, mm_ret, mm_exc, mm_files>>

\* sample, lsl_ts = inlet.pull_sample(timeout=1.0): the next sample, or None
\* after the timeout; if sample is None: continue
ProducerPull ==
    /\ mm_pc.producer = "pull"
    /\ \/ /\ mm_args.pulled < mm_csv.samples
          /\ mm_args' = [mm_args EXCEPT !.pulled = @ + 1, !.sample = mm_args.pulled + 1]
          /\ mm_pc' = [mm_pc EXCEPT !.producer = "put"]
       \/ /\ mm_pc' = [mm_pc EXCEPT !.producer = "check"]
          /\ UNCHANGED mm_args
    /\ UNCHANGED <<mm_csv, mm_ret, mm_exc, mm_files>>

\* row = [unix_ms, lsl_ts] + sample; queues[stream_type].put(row)
ProducerPut ==
    /\ mm_pc.producer = "put"
    /\ mm_args' = [mm_args EXCEPT !.queue = Append(@, mm_args.sample),
                                  !.put = Append(@, mm_args.sample)]
    /\ mm_pc' = [mm_pc EXCEPT !.producer = "tap"]
    /\ UNCHANGED <<mm_csv, mm_ret, mm_exc, mm_files>>

\* with viz_locks[stream_type]: viz_buffers[stream_type].append(sample)
ProducerTap ==
    /\ mm_pc.producer = "tap"
    /\ mm_args' = [mm_args EXCEPT !.viz_buffer =
                      DequeAppend(@, mm_args.sample, VizMaxLen("EEG"))]
    /\ mm_pc' = [mm_pc EXCEPT !.producer = "check"]
    /\ UNCHANGED <<mm_csv, mm_ret, mm_exc, mm_files>>

\* open(filepath, 'w'); writer.writerow(header)
ConsumerOpen ==
    /\ mm_pc.consumer = "open"
    /\ mm_files' = ("EEG.csv" :> <<>>)
    /\ mm_pc' = [mm_pc EXCEPT !.consumer = "check"]
    /\ UNCHANGED <<mm_csv, mm_args, mm_ret, mm_exc>>

\* while not stop_event.is_set() or not queues[stream_type].empty()
ConsumerCheck ==
    /\ mm_pc.consumer = "check"
    /\ mm_pc' = [mm_pc EXCEPT !.consumer =
                    IF ~mm_args.stop_event \/ Len(mm_args.queue) # 0 THEN "get"
                    ELSE "done"]
    /\ UNCHANGED <<mm_csv, mm_args, mm_ret, mm_exc, mm_files>>

\* row = queues[stream_type].get(timeout=0.5); except Empty: continue
ConsumerGet ==
    /\ mm_pc.consumer = "get"
    /\ IF Len(mm_args.queue) # 0
       THEN /\ mm_args' = [mm_args EXCEPT !.queue = Tail(@), !.row = Head(mm_args.queue)]
            /\ mm_pc' = [mm_pc EXCEPT !.consumer = "write"]
       ELSE /\ mm_pc' = [mm_pc EXCEPT !.consumer = "check"]
            /\ UNCHANGED mm_args
    /\ UNCHANGED <<mm_csv, mm_ret, mm_exc, mm_files>>

\* writer.writerow(row); queues[stream_type].task_done()
ConsumerWrite ==
    /\ mm_pc.consumer = "write"
    /\ mm_files' = ("EEG.csv" :> Append(mm_files["EEG.csv"], mm_args.row))
    /\ mm_pc' = [mm_pc EXCEPT !.consumer = "check"]
    /\ UNCHANGED <<mm_csv, mm_args, mm_ret, mm_exc>>

\* stop_event.set(), by handle_sigint or when app.exec() returns
SetStopEvent ==
    /\ mm_pc.main = "exec"
    /\ mm_args' = [mm_args EXCEPT !.stop_event = TRUE]
    /\ mm_pc' = [mm_pc EXCEPT !.main = "join"]
    /\ UNCHANGED <<mm_csv, mm_ret, mm_exc, mm_files>>

Producer == ProducerResolve \/ ProducerCheck \/ ProducerPull \/ ProducerPut \/ ProducerTap

Consumer == ConsumerOpen \/ ConsumerCheck \/ ConsumerGet \/ ConsumerWrite

RecordNext == Producer \/ Consumer \/ SetStopEvent

\* the recorder of one stream, every interleaving of its threads
SpecRecord == RecordInit /\ [][RecordNext]_vars

\* C24: when the consumer thread has exited, the data rows of the stream's
\* CSV are the rows the producer thread put on the stream's queue, in the
\* order they were put: none lost, duplicated or reordered.
C24_CsvHoldsEveryEnqueuedRow ==
    mm_pc.consumer = "done" => mm_files["EEG.csv"] = mm_args.put

\* the same while the producer has put nothing since the consumer exited
CsvHoldsRowsEnqueuedBeforeExit ==
    (mm_pc.consumer = "done" /\ Len(mm_args.queue) = 0)
        => mm_files["EEG.csv"] = mm_args.put

\* what the CSV holds is at all times the start of what was put
CsvIsPrefixOfEnqueued ==
    mm_pc.consumer # "open" =>
        /\ Len(mm_files["EEG.csv"]) <= Len(mm_args.put)
        /\ mm_files["EEG.csv"] = SubSeq(mm_args.put, 1, Len(mm_files["EEG.csv"]))

\* the recorder with threads that keep running: pull_sample and Queue.get
\* return after their timeouts at the latest, and each thread is scheduled
SpecRecordFair == SpecRecord /\ WF_vars(Producer) /\ WF_vars(Consumer)

ThreadsDone == mm_pc.producer = "done" /\ mm_pc.consumer = "done"

\* C25: once stop_event is set, the producer thread and the consumer thread
\* eventually terminate.
C25_ThreadsTerminate == mm_args.stop_event ~> ThreadsDone

\* both threads have ended after a stop that found the producer in its loop
\* and rows still to write
C25_Witness ==
    /\ mm_args.stop_event
    /\ ThreadsDone
    /\ mm_csv.found
    /\ Len(mm_args.put) = MaxStream
    /\ mm_files["EEG.csv"] = mm_args.put

(***************************************************************************)
(* The visualization buffer of a stream, in record.py and demo.py: the     *)
(* producer's appends and the plot timer's reads, each under the stream's  *)
(* lock.  mm_csv is the stream, mm_args the buffer and the number of       *)
(* samples appended so far, mm_ret the array the last read made.           *)
(***************************************************************************)
MaxAppends == 322

STREAM_TYPES == {"EEG", "Accelerometer", "Gyroscope", "PPG"}

VizInit ==
    /\ mm_csv \in [stype : STREAM_TYPES]
    /\ mm_pc = "idle"
    /\ mm_args = [viz_buffer |-> <<>>, appended |-> 0]
    /\ mm_ret = <<>>
    /\ mm_exc = NoExc
    /\ mm_files = NoFiles

\* with viz_locks[stream_type]: viz_buffers[stream_type].append(sample)
VizAppend ==
    /\ mm_args.appended < MaxAppends
    /\ mm_args' = [viz_buffer |-> DequeAppend(mm_args.viz_buffer, mm_args.appended + 1,
                                              VizMaxLen(mm_csv.stype)),
                   appended |-> mm_args.appended + 1]
    /\ mm_pc' = "append"
    /\ UNCHANGED <<mm_csv, mm_ret, mm_exc, mm_files>>

\* with viz_locks[...]: data = np.array(viz_buffers[...])
UpdatePlot ==
    /\ mm_ret' = mm_args.viz_buffer
    /\ mm_pc' = "update_plot"
    /\ UNCHANGED <<mm_csv, mm_args, mm_exc, mm_files>>

VizNext == VizAppend \/ UpdatePlot

\* the visualization buffer under every sequence of appends and reads
SpecViz == VizInit /\ [][VizNext]_vars

\* the samples numbered from..to, in order
Numbered(from, to) == [i \in 1..(to - from + 1) |-> from + i - 1]

\* the buffer holds at most the window's worth of samples, and they are the
\* most recently appended ones in arrival order
HoldsMostRecent ==
    LET window == VIS_WINDOW_SEC * STREAM_RATES[mm_csv.stype]
        n == mm_args.appended
    IN  /\ Len(mm_args.viz_buffer) <= window
        /\ mm_args.viz_buffer = Numbered(IF n > window THEN n - window + 1 ELSE 1, n)

\* an append to a full buffer removes its first sample and no other
EvictsOldest ==
    LET window == VIS_WINDOW_SEC * STREAM_RATES[mm_csv.stype] IN
    (mm_args'.appended # mm_args.appended /\ Len(mm_args.viz_buffer) = window) =>
        /\ Len(mm_args'.viz_buffer) = window
        /\ SubSeq(mm_args'.viz_buffer, 1, window - 1) = Tail(mm_args.viz_buffer)
        /\ mm_args'.viz_buffer[window] = mm_args'.appended

\* a read returns the buffer and leaves it as it was
ReadKeeps ==
    mm_args'.appended = mm_args.appended =>
        mm_args'.viz_buffer = mm_args.viz_buffer /\ mm_ret' = mm_args.viz_buffer

\* C26: after any sequence of producer appends and plot-timer reads the
\* visualization buffer holds at most VIS_WINDOW_SEC x STREAM_RATES[stream]
\* samples, the most recently appended in arrival order; an append to a full
\* buffer evicts exactly the oldest sample, and a read never removes samples.
C26_BufferIsSlidingWindow ==
    []HoldsMostRecent /\ [][EvictsOldest /\ ReadKeeps]_vars

\* a full Accelerometer buffer that has evicted its first two samples, read
\* by the plot timer
C26_Witness ==
    /\ mm_pc = "update_plot"
    /\ mm_csv.stype = "Accelerometer"
    /\ mm_args.appended = 252
    /\ Len(mm_args.viz_buffer) = 250
    /\ mm_args.viz_buffer[1] = 3
    /\ mm_ret = mm_args.viz_buffer

====
